---- MODULE Spec2Model ----
(***************************************************************************)
(* Cross-cluster history replicator of the history service, as exercised   *)
(* by historyReplicatorSuite (src/tools/cli/admin.go, package history).    *)
(* One workflow (namespaceID, workflowID) is modelled; its runs are the    *)
(* elements of RunIDs.  Each replication request is executed by a worker;  *)
(* a worker moves from one suspension point (context lock acquisition or   *)
(* persistence call) to the next in one step.                              *)
(***************************************************************************)
EXTENDS Integers, Sequences, FiniteSets, TLC

\* ---------------------------------------------------------------- bounds
MaxRuns == 2
MaxVersion == 3
MaxTaskID == 2

\* ------------------------------------------------------ program constants
FirstEventID == 1
EmptyRunID == 0

RunIDs == 1..MaxRuns
Versions == 1..MaxVersion
TaskIDs == 0..MaxTaskID
Workers == {"w1", "w2"}
NoWorker == "none"

VARIABLES
  store,      \* execution store: run id -> persisted mutable state, or Absent
  current,    \* current-execution row of the workflow (EmptyRunID when none)
  branches,   \* runs whose history branch has been appended and not deleted
  lock,       \* execution cache: run id -> worker holding its context lock
  pc,         \* worker -> suspension point
  req,        \* worker -> request in progress (or last finished)
  loc,        \* worker -> locals of the handler
  calls,      \* worker -> persistence and mutable-state calls of the request
  result,     \* worker -> outcome of the finished request
  snap        \* persisted state left by the first delivery of a redelivered request

vars == <<store, current, branches, lock, pc, req, loc, calls, result, snap>>

Absent == [state |-> "Absent"]
NoReq == [kind |-> "none"]
NoResult == [kind |-> "none"]
Success == [kind |-> "ok"]

\* ------------------------------------------------------- cluster metadata
CurrentCluster == "active"
AlternativeCluster == "standby"

\* failover versions alternate between the two clusters; the current
\* cluster's initial failover version is 0
ClusterNameForFailoverVersion(v) ==
  IF v % 2 = 0 THEN CurrentCluster ELSE AlternativeCluster

IsVersionFromSameCluster(a, b) == (a % 2) = (b % 2)

\* ------------------------------------------------------- mutable state
IsWorkflowExecutionRunning(ms) == ms.state \in {"Created", "Running"}

Exists(r) == store[r] # Absent

UpdateCurrentVersion(ms, v) == [ms EXCEPT !.currentVersion = v]

AddEvent(ms, type) ==
  [ms EXCEPT !.events = Append(@, [eventID |-> ms.nextEventID,
                                   version |-> ms.currentVersion,
                                   type |-> type]),
             !.nextEventID = @ + 1]

AddWorkflowExecutionSignaledMut(ms) ==
  [ms EXCEPT !.events = Append(@, [eventID |-> ms.nextEventID,
                                   version |-> ms.currentVersion,
                                   type |-> "Signaled"])]
AddWorkflowExecutionSignaled(ms) == AddEvent(ms, "Signaled")

AddDecisionTaskScheduledEvent(ms) ==
  [AddEvent(ms, "DecisionScheduled") EXCEPT !.pendingDecision = TRUE,
                                             !.state = "Running"]

AddDecisionTaskFailedEvent(ms) ==
  [AddEvent(ms, "DecisionFailed") EXCEPT !.pendingDecision = FALSE]

AddWorkflowExecutionTerminatedEventMut(ms, firstEventID) ==
  [ms EXCEPT !.events = Append(@, [eventID |-> firstEventID,
                                   version |-> ms.currentVersion,
                                   type |-> "Terminated"]),
             !.nextEventID = firstEventID + 1]

AddWorkflowExecutionTerminatedEvent(ms, firstEventID) ==
  [ms EXCEPT !.events = Append(@, [eventID |-> firstEventID,
                                   version |-> ms.currentVersion,
                                   type |-> "Terminated"]),
             !.nextEventID = firstEventID + 1,
             !.pendingDecision = FALSE,
             !.buffered = FALSE,
             !.state = "Completed"]

CloseTransactionMut(ms) ==
  [ms EXCEPT !.lastWriteVersion = ms.currentVersion,
             !.lastWriteEventID = ms.nextEventID]

CloseTransaction(ms) ==
  [ms EXCEPT !.lastWriteVersion = ms.currentVersion,
             !.lastWriteEventID = ms.nextEventID - 1]

\* state builder: one replicated event applied to the mutable state
ApplyEvent(ms, type) ==
  CASE type = "Started" -> [AddEvent(ms, type) EXCEPT !.state = "Created"]
    [] type = "DecisionScheduled" -> AddDecisionTaskScheduledEvent(ms)
    [] type \in {"Completed", "Terminated"} ->
         [AddEvent(ms, type) EXCEPT !.state = "Completed", !.pendingDecision = FALSE,
                                    !.buffered = FALSE]
    [] type = "DecisionFailed" -> AddDecisionTaskFailedEvent(ms)
    [] OTHER -> AddEvent(ms, type)

RECURSIVE ApplyEvents(_, _)
ApplyEvents(ms, events) ==
  IF events = <<>> THEN ms
  ELSE ApplyEvents(ApplyEvent(ms, Head(events)), Tail(events))

NewMutableState(version) ==
  [state |-> "Created", nextEventID |-> FirstEventID, currentVersion |-> version,
   lastWriteVersion |-> version, lastWriteEventID |-> 0, lastEventTaskID |-> 0,
   pendingDecision |-> FALSE, buffered |-> FALSE, replicated |-> 0, events |-> <<>>]

\* passive commit of replicated events: the last event acknowledged from the
\* source cluster is recorded in lastReplicationInfo
Replicated(ms, taskID) ==
  [ms EXCEPT !.lastEventTaskID = taskID, !.replicated = ms.nextEventID - 1]

\* snapshot of a run built from the history of its start request
StartSnapshot(history, version, taskID) ==
  CloseTransaction(Replicated(ApplyEvents(NewMutableState(version), history), taskID))

\* --------------------------------------------------------------- requests
StartHistories == {<<"Started", "DecisionScheduled">>, <<"Started", "Signaled">>}
Batches == {<<"Signaled">>, <<"DecisionScheduled", "Completed">>}

\* request.replicationInfo[current cluster]; NoInfo when the entry is absent
NoInfo == [version |-> 0, lastEventID |-> 0]
Infos == [version : Versions, lastEventID : 2..3]

StartRequests ==
  [start : {TRUE}, run : RunIDs, version : Versions, first : {FirstEventID},
   events : StartHistories, taskID : TaskIDs, info : {NoInfo},
   resetWorkflow : {FALSE}, forceBufferEvents : {FALSE}]

OtherRequests ==
  [start : {FALSE}, run : RunIDs, version : Versions, first : 3..4,
   events : Batches, taskID : TaskIDs, info : {NoInfo} \cup Infos,
   resetWorkflow : BOOLEAN, forceBufferEvents : BOOLEAN]

Requests == StartRequests \cup OtherRequests

\* requests raced against each other: no replicationInfo, no reset, one task
\* id, one start history, and batches that follow the two events of a start
\* history
ConcRequests ==
  {r \in Requests : /\ r.info = NoInfo
                    /\ ~r.resetWorkflow
                    /\ ~r.forceBufferEvents
                    /\ r.taskID = MaxTaskID
                    /\ r.start => r.events = <<"Started", "Signaled">>
                    /\ r.start \/ r.first = FirstEventID + 2}

\* replicationInfo is read only when the batch is newer than a known run last
\* written by the current cluster; requests elsewhere are taken without it
InfoRead(r) ==
  /\ ~r.start
  /\ store[r.run] # Absent
  /\ r.version > store[r.run].lastWriteVersion
  /\ ClusterNameForFailoverVersion(store[r.run].lastWriteVersion) = CurrentCluster

\* forceBufferEvents is consulted only for a run that is closed; requests
\* elsewhere are taken without it
ForceBufferRead(r) ==
  /\ ~r.start
  /\ store[r.run] # Absent
  /\ ~IsWorkflowExecutionRunning(store[r.run])

SignalEvents(events) == SelectSeq(events, LAMBDA t : t = "Signaled")

NoErr == [runID |-> EmptyRunID, state |-> "none", lastWriteVersion |-> 0]

InitLoc == [path |-> "none", cur |-> EmptyRunID, prevRunID |-> EmptyRunID,
            prevLastWriteVersion |-> 0, lastEventID |-> 0, err |-> NoErr,
            redelivered |-> FALSE, curLocks |-> 0, curUnlocks |-> 0]

NoSnap == [state |-> <<>>, result |-> [kind |-> "none"]]

\* ------------------------------------------------- persistence capability
AlreadyStartedError ==
  [runID |-> current, state |-> store[current].state,
   lastWriteVersion |-> store[current].lastWriteVersion]

CreateSucceeds(creq) ==
  IF creq.mode = "BrandNew" THEN current = EmptyRunID
  ELSE /\ current # EmptyRunID
       /\ current = creq.previousRunID
       /\ store[current].lastWriteVersion = creq.previousLastWriteVersion

\* ------------------------------------------------- replicateWorkflowStarted
CreateRequestBrandNewMut(snapshot) ==
  [op |-> "CreateWorkflowExecution", mode |-> "BrandNew",
   previousRunID |-> EmptyRunID, previousLastWriteVersion |-> 0,
   snapshot |-> snapshot, policy |-> "active"]

CreateRequestBrandNew(snapshot) ==
  [op |-> "CreateWorkflowExecution", mode |-> "BrandNew",
   previousRunID |-> EmptyRunID, previousLastWriteVersion |-> 0,
   snapshot |-> snapshot, policy |-> "passive"]

CreateRequestReuseMut(snapshot, runID, lastWriteVersion) ==
  [op |-> "CreateWorkflowExecution", mode |-> "WorkflowIDReuse",
   previousRunID |-> runID, previousLastWriteVersion |-> 0,
   snapshot |-> snapshot, policy |-> "passive"]

CreateRequestReuse(snapshot, runID, lastWriteVersion) ==
  [op |-> "CreateWorkflowExecution", mode |-> "WorkflowIDReuse",
   previousRunID |-> runID, previousLastWriteVersion |-> lastWriteVersion,
   snapshot |-> snapshot, policy |-> "passive"]

SameRunIDMut(err, runID) == FALSE

SameRunID(err, runID) == err.runID = runID

StartDecisionMut(err, runID, incomingVersion) ==
  IF SameRunID(err, runID) THEN "same"
  ELSE IF err.lastWriteVersion > incomingVersion THEN "stale"
  ELSE IF err.state = "Completed" THEN "reuse"
  ELSE IF err.lastWriteVersion = incomingVersion THEN "equal"
  ELSE "terminate"

\* decision table on WorkflowExecutionAlreadyStartedError
StartDecision(err, runID, incomingVersion) ==
  IF SameRunID(err, runID) THEN "same"
  ELSE IF err.state = "Completed" THEN "reuse"
  ELSE IF err.lastWriteVersion > incomingVersion THEN "stale"
  ELSE IF err.lastWriteVersion = incomingVersion THEN "equal"
  ELSE "terminate"

Snapshot(w) == StartSnapshot(req[w].events, req[w].version, req[w].taskID)

\* -------------------------------------------------- execution cache locks
LockFreeMut(r) == TRUE

\* lock() on the context of run r returns only when no worker holds it
LockFree(r) == lock[r] = NoWorker

AcquireMut(w, r) == lock

Acquire(w, r) == [lock EXCEPT ![r] = w]

\* ------------------------------------------------------------ bookkeeping
Log(w, c) == calls' = [calls EXCEPT ![w] = Append(@, c)]

Logs(w, cs) == calls' = [calls EXCEPT ![w] = @ \o cs]

Persisted == [store |-> store, current |-> current, branches |-> branches]

\* the handler returns: the target's context lock is released by the caller
Finish(w, res) ==
  /\ pc' = [pc EXCEPT ![w] = "done"]
  /\ result' = [result EXCEPT ![w] = res]
  /\ lock' = [r \in RunIDs |-> IF lock[r] = w THEN NoWorker ELSE lock[r]]
  /\ UNCHANGED snap

Goto(w, label) ==
  /\ pc' = [pc EXCEPT ![w] = label]
  /\ UNCHANGED <<result, lock, snap>>

\* all workers idle, no lock held
Idle ==
  /\ lock = [r \in RunIDs |-> NoWorker]
  /\ pc = [w \in Workers |-> "idle"]
  /\ req = [w \in Workers |-> NoReq]
  /\ loc = [w \in Workers |-> InitLoc]
  /\ calls = [w \in Workers |-> <<>>]
  /\ result = [w \in Workers |-> NoResult]
  /\ snap = NoSnap

\* a replication request out of rs arrives at an idle worker
Receive(w, rs) ==
  /\ pc[w] = "idle"
  /\ \E r \in rs :
       /\ r.start => (~Exists(r.run) \/ current = r.run)
       /\ r.info # NoInfo => InfoRead(r)
       /\ r.resetWorkflow => ~Exists(r.run)
       /\ r.forceBufferEvents => ForceBufferRead(r)
       /\ req' = [req EXCEPT ![w] = r]
  /\ pc' = [pc EXCEPT ![w] = "lockTarget"]
  /\ UNCHANGED <<store, current, branches, lock, loc, calls, result, snap>>

Begin(w) == Receive(w, Requests)

\* each worker of a race handles one request; the workers are interchangeable
\* and w1 names the one whose request arrives first
BeginConc(w) ==
  /\ w = "w2" => pc["w1"] # "idle"
  /\ Receive(w, ConcRequests)

\* the peer delivers the same request once more, right after the first delivery
Redeliver(w) ==
  /\ pc[w] = "done"
  /\ ~loc[w].redelivered
  /\ pc' = [pc EXCEPT ![w] = "lockTarget"]
  /\ loc' = [loc EXCEPT ![w] = [InitLoc EXCEPT !.redelivered = TRUE]]
  /\ calls' = [calls EXCEPT ![w] = <<>>]
  /\ result' = [result EXCEPT ![w] = NoResult]
  /\ snap' = [state |-> Persisted, result |-> result[w]]
  /\ UNCHANGED <<store, current, branches, lock, req>>

\* ingestion dispatch: lock the target context, load, route by case; the
\* context of a run unknown locally is released before the current run is
\* looked up
LockTarget(w) ==
  /\ pc[w] = "lockTarget"
  /\ LockFree(req[w].run)
  /\ IF req[w].start
     THEN /\ lock' = Acquire(w, req[w].run)
          /\ branches' = branches \cup {req[w].run}
          /\ Log(w, [op |-> "AppendHistoryNodes", run |-> req[w].run])
          /\ pc' = [pc EXCEPT ![w] = "create"]
          /\ UNCHANGED loc
     ELSE IF ~Exists(req[w].run)
     THEN /\ pc' = [pc EXCEPT ![w] = "getCurrent"]
          /\ loc' = [loc EXCEPT ![w].path = "missing"]
          /\ UNCHANGED <<lock, branches, calls>>
     ELSE /\ lock' = Acquire(w, req[w].run)
          /\ pc' = [pc EXCEPT ![w] = "versionCheck"]
          /\ UNCHANGED <<branches, calls, loc>>
  /\ UNCHANGED <<store, current, req, result, snap>>

\* CreateWorkflowExecution(BrandNew) and the AlreadyStarted decision table
Create(w) ==
  /\ pc[w] = "create"
  /\ LET creq == CreateRequestBrandNew(Snapshot(w)) IN
     /\ Log(w, creq)
     /\ IF CreateSucceeds(creq)
        THEN /\ store' = [store EXCEPT ![req[w].run] = creq.snapshot]
             /\ current' = req[w].run
             /\ UNCHANGED <<branches, loc>>
             /\ Finish(w, Success)
        ELSE LET err == AlreadyStartedError
                 d == StartDecision(err, req[w].run, req[w].version) IN
             /\ UNCHANGED <<store, current, branches>>
             /\ loc' = [loc EXCEPT ![w].err = err,
                                   ![w].cur = err.runID,
                                   ![w].prevRunID = err.runID,
                                   ![w].prevLastWriteVersion = err.lastWriteVersion,
                                   ![w].path = d]
             /\ CASE d = "same" -> Finish(w, Success)
                  [] d = "reuse" -> Goto(w, "reuse")
                  [] d = "stale" -> Goto(w, "deleteBranch")
                  [] d = "equal" -> Goto(w, "getCurrent")
                  [] OTHER -> Goto(w, "terminate")
  /\ UNCHANGED req

CreateFailsMut(w) ==
  /\ pc[w] \in {"create", "reuse"}
  /\ Log(w, [op |-> "CreateWorkflowExecution", mode |-> "failed"])
  /\ store' = [store EXCEPT ![req[w].run] = Snapshot(w)]
  /\ UNCHANGED <<current, branches, req, loc>>
  /\ Finish(w, [kind |-> "error", msg |-> "Internal"])

\* CreateWorkflowExecution fails with an error other than AlreadyStarted
CreateFails(w) ==
  /\ pc[w] \in {"create", "reuse"}
  /\ Log(w, [op |-> "CreateWorkflowExecution", mode |-> "failed"])
  /\ UNCHANGED <<store, current, branches, req, loc>>
  /\ Finish(w, [kind |-> "error", msg |-> "Internal"])

ReuseMut(w) ==
  /\ pc[w] = "reuse"
  /\ LET creq == CreateRequestReuse(Snapshot(w), loc[w].prevRunID,
                                    loc[w].prevLastWriteVersion) IN
     /\ Log(w, creq)
     /\ IF CreateSucceeds(creq)
        THEN /\ store' = [store EXCEPT ![req[w].run] = creq.snapshot]
             /\ UNCHANGED current
             /\ Finish(w, Success)
        ELSE /\ UNCHANGED <<store, current>>
             /\ Finish(w, [kind |-> "error", msg |-> "ConditionFailed"])
  /\ UNCHANGED <<branches, req, loc>>
\* retry of the create with mode WorkflowIDReuse
Reuse(w) ==
  /\ pc[w] = "reuse"
  /\ LET creq == CreateRequestReuse(Snapshot(w), loc[w].prevRunID,
                                    loc[w].prevLastWriteVersion) IN
     /\ Log(w, creq)
     /\ IF CreateSucceeds(creq)
        THEN /\ store' = [store EXCEPT ![req[w].run] = creq.snapshot]
             /\ current' = req[w].run
             /\ Finish(w, Success)
        ELSE /\ UNCHANGED <<store, current>>
             /\ Finish(w, [kind |-> "error", msg |-> "ConditionFailed"])
  /\ UNCHANGED <<branches, req, loc>>

DeleteBranchMut(w) ==
  /\ pc[w] = "deleteBranch"
  /\ Log(w, [op |-> "DeleteHistoryBranch", run |-> req[w].run])
  /\ Goto(w, "getCurrent")
  /\ UNCHANGED <<store, current, branches, req, loc>>

\* stale start against a running current run: drop the appended branch
DeleteBranch(w) ==
  /\ pc[w] = "deleteBranch"
  /\ branches' = branches \ {req[w].run}
  /\ Log(w, [op |-> "DeleteHistoryBranch", run |-> req[w].run])
  /\ Goto(w, "getCurrent")
  /\ UNCHANGED <<store, current, req, loc>>

\* ------------------------------------------------------ signal reapplication
AddSignalsMut(ms, signals) ==
  IF signals = <<>> \/ \E i \in DOMAIN ms.events : ms.events[i].type = "Signaled"
  THEN ms
  ELSE AddWorkflowExecutionSignaled(ms)

RECURSIVE AddSignals(_, _)
AddSignals(ms, signals) ==
  IF signals = <<>> THEN ms
  ELSE AddSignals(AddWorkflowExecutionSignaled(ms), Tail(signals))

ReapplyAppliesMut(ms, events) == IsWorkflowExecutionRunning(ms)

ReapplyApplies(ms, events) ==
  SignalEvents(events) # <<>> /\ IsWorkflowExecutionRunning(ms)

ReapplyEventsMut(ms, events) ==
  IF ~ReapplyApplies(ms, events) THEN ms
  ELSE CloseTransaction(
         AddDecisionTaskScheduledEvent(
           AddSignals(UpdateCurrentVersion(ms, ms.lastWriteVersion),
                      SignalEvents(events))))

\* reapplyEvents: only WorkflowExecutionSignaled events are taken over
ReapplyEvents(ms, events) ==
  IF ~ReapplyApplies(ms, events) THEN ms
  ELSE LET versioned == UpdateCurrentVersion(ms, ms.lastWriteVersion)
           signaled == AddSignals(versioned, SignalEvents(events))
           decided == IF signaled.pendingDecision THEN signaled
                      ELSE AddDecisionTaskScheduledEvent(signaled)
       IN CloseTransaction(decided)

ReapplyCallsMut(ms, events, run) ==
  IF ~ReapplyApplies(ms, events) THEN <<>>
  ELSE <<[op |-> "UpdateCurrentVersion", run |-> run, version |-> ms.lastWriteVersion]>>
       \o [i \in 1..Len(SignalEvents(events)) |->
             [op |-> "AddWorkflowExecutionSignaled", run |-> run]]
       \o <<[op |-> "AddDecisionTaskScheduledEvent", run |-> run]>>
       \o <<[op |-> "UpdateAsActive", run |-> run]>>

\* calls of reapplyEvents on the mutable state and the context of run
ReapplyCalls(ms, events, run) ==
  IF ~ReapplyApplies(ms, events) THEN <<>>
  ELSE <<[op |-> "UpdateCurrentVersion", run |-> run, version |-> ms.lastWriteVersion]>>
       \o [i \in 1..Len(SignalEvents(events)) |->
             [op |-> "AddWorkflowExecutionSignaled", run |-> run]]
       \o (IF ms.pendingDecision THEN <<>>
           ELSE <<[op |-> "AddDecisionTaskScheduledEvent", run |-> run]>>)
       \o <<[op |-> "UpdateAsActive", run |-> run]>>

RetryTaskMut(msg, run, nextEventID) ==
  [kind |-> "retry", msg |-> msg, run |-> run, nextEventID |-> nextEventID + 1]

RetryTask(msg, run, nextEventID) ==
  [kind |-> "retry", msg |-> msg, run |-> run, nextEventID |-> nextEventID]

\* ------------------------------------------- terminateWorkflow
workflowTerminationReason == "history replicator terminating workflow"
workflowTerminationIdentity == "history-service"

TerminateWorkflowMut(ms) ==
  IF ~IsWorkflowExecutionRunning(ms) THEN ms
  ELSE CloseTransaction(
         AddWorkflowExecutionSignaled(UpdateCurrentVersion(ms, ms.lastWriteVersion)))

TerminateWorkflow(ms) ==
  IF ~IsWorkflowExecutionRunning(ms) THEN ms
  ELSE CloseTransaction(
         AddWorkflowExecutionTerminatedEvent(
           UpdateCurrentVersion(ms, ms.lastWriteVersion), ms.nextEventID))

TerminateCalls(ms, run) ==
  IF ~IsWorkflowExecutionRunning(ms) THEN <<>>
  ELSE <<[op |-> "UpdateCurrentVersion", run |-> run, version |-> ms.lastWriteVersion],
         [op |-> "AddWorkflowExecutionTerminatedEvent", run |-> run,
          eventID |-> ms.nextEventID,
          reason |-> workflowTerminationReason,
          identity |-> workflowTerminationIdentity],
         [op |-> "UpdateAsActive", run |-> run]>>

\* ---------------------------- ApplyOtherEventsMissingMutableState decision
FinishedDecisionMut(ms, incomingVersion) ==
  IF ms.lastWriteVersion = incomingVersion THEN "retryCurrent" ELSE "retryFirst"

\* the current run is finished and not newer than the batch: the batch is to
\* be sent again from the first event of its run
FinishedDecision(ms, incomingVersion) == "retryFirst"

MissingDecisionMut(ms, incomingVersion, taskID) ==
  IF ms.lastWriteVersion > incomingVersion THEN "stale"
  ELSE IF IsWorkflowExecutionRunning(ms)
  THEN IF ms.lastWriteVersion < incomingVersion THEN "terminate"
       ELSE IF taskID <= ms.lastEventTaskID THEN "duplicate"
       ELSE "retryCurrent"
  ELSE "retryFirst"

MissingDecision(ms, incomingVersion, taskID) ==
  IF ms.lastWriteVersion > incomingVersion THEN "stale"
  ELSE IF IsWorkflowExecutionRunning(ms)
  THEN IF ms.lastWriteVersion < incomingVersion THEN "terminate"
       ELSE IF taskID < ms.lastEventTaskID THEN "duplicate"
       ELSE "retryCurrent"
  ELSE FinishedDecision(ms, incomingVersion)

EqualDecisionMut(ms, taskID) ==
  IF taskID <= ms.lastEventTaskID THEN "duplicate" ELSE "retryExisting"

\* start request at the version of the running current run: the run with the
\* larger lastEventTaskID wins, otherwise the request is retried
EqualDecision(ms, taskID) ==
  IF taskID < ms.lastEventTaskID THEN "duplicate" ELSE "retryExisting"

\* outcomes of the workflow resetor, which is outside the replicator
ResetOutcomes == {Success, [kind |-> "error", msg |-> "ResetFailed"]}

ApplyResetEventCall(run, outcome) ==
  [op |-> "ApplyResetEvent", run |-> run, outcome |-> outcome]

ResetDelegatedMut(d, r) == FALSE

\* a reset request is handed to the workflow resetor once the current run is
\* closed and not newer than the request
ResetDelegated(d, r) == r.resetWorkflow /\ d = "retryFirst"

\* GetCurrentExecution
GetCurrent(w) ==
  /\ pc[w] = "getCurrent"
  /\ Log(w, [op |-> "GetCurrentExecution"])
  /\ UNCHANGED <<store, current, branches, req>>
  /\ IF current = EmptyRunID
     THEN /\ UNCHANGED loc
          /\ IF loc[w].path = "missing"
             THEN Finish(w, RetryTask("ErrWorkflowNotFound", req[w].run, FirstEventID))
             ELSE Finish(w, [kind |-> "error", msg |-> "NotFound"])
     ELSE IF loc[w].path = "closed" /\ current = req[w].run
     THEN /\ UNCHANGED loc
          /\ Finish(w, Success)
     ELSE /\ loc' = [loc EXCEPT ![w].cur = current]
          /\ Goto(w, "lockCurrent")

LockUnlockCurrentMut(l) == [l EXCEPT !.curLocks = @ + 1]

\* one lock() and one unlock() on the context of the current run
LockUnlockCurrent(l) ==
  [l EXCEPT !.curLocks = @ + 1, !.curUnlocks = @ + 1]

\* getCurrentWorkflowMutableState: lock and load the current run, act, unlock
LockCurrent(w) ==
  /\ pc[w] = "lockCurrent"
  /\ LockFree(loc[w].cur)
  /\ UNCHANGED <<current, branches, req>>
  /\ loc' = [loc EXCEPT ![w] = LockUnlockCurrent(@)]
  /\ LET cur == loc[w].cur
         ms == store[cur]
         path == loc[w].path
         d == MissingDecision(ms, req[w].version, req[w].taskID)
         reapply == path \in {"stale", "closed"} \/ (path = "missing" /\ d = "stale")
     IN
     IF reapply
     THEN /\ store' = [store EXCEPT ![cur] = ReapplyEvents(ms, req[w].events)]
          /\ Logs(w, ReapplyCalls(ms, req[w].events, cur))
          /\ Finish(w, Success)
     ELSE IF path = "equal"
     THEN /\ UNCHANGED <<store, calls>>
          /\ IF EqualDecision(ms, req[w].taskID) = "duplicate"
             THEN Finish(w, Success)
             ELSE Finish(w, RetryTask("ErrRetryExistingWorkflow", cur, ms.nextEventID))
     ELSE IF ResetDelegated(d, req[w])
     THEN /\ UNCHANGED store
          /\ \E o \in ResetOutcomes :
               /\ Log(w, ApplyResetEventCall(cur, o))
               /\ Finish(w, o)
     ELSE /\ UNCHANGED <<store, calls>>
          /\ CASE d = "terminate" -> Goto(w, "terminate")
               [] d = "duplicate" -> Finish(w, Success)
               [] d = "retryCurrent" ->
                    Finish(w, RetryTask("ErrWorkflowNotFound", cur, ms.nextEventID))
               [] OTHER ->
                    Finish(w, RetryTask("ErrWorkflowNotFound", req[w].run, FirstEventID))

TerminateMut(w) ==
  /\ pc[w] = "terminate"
  /\ LockFree(loc[w].cur)
  /\ UNCHANGED <<store, current, branches, req, calls>>
  /\ loc' = [loc EXCEPT ![w] = LockUnlockCurrent(
                 [@ EXCEPT !.prevRunID = loc[w].cur,
                           !.prevLastWriteVersion = store[loc[w].cur].lastWriteVersion])]
  /\ CASE loc[w].path = "missing" ->
            Finish(w, RetryTask("ErrWorkflowNotFound", req[w].run, FirstEventID))
       [] loc[w].path = "resolve" -> Goto(w, "reset")
       [] OTHER -> Goto(w, "reuse")

\* terminateWorkflow: lock the current run by its run id, terminate, unlock
Terminate(w) ==
  /\ pc[w] = "terminate"
  /\ LockFree(loc[w].cur)
  /\ UNCHANGED <<current, branches, req>>
  /\ LET cur == loc[w].cur
         ms == store[cur]
     IN /\ store' = [store EXCEPT ![cur] = TerminateWorkflow(ms)]
        /\ Logs(w, TerminateCalls(ms, cur))
        /\ loc' = [loc EXCEPT ![w] = LockUnlockCurrent(
                       [@ EXCEPT !.prevRunID = cur,
                                 !.prevLastWriteVersion = ms.lastWriteVersion])]
        /\ CASE loc[w].path = "missing" ->
                  Finish(w, RetryTask("ErrWorkflowNotFound", req[w].run, FirstEventID))
             [] loc[w].path = "resolve" -> Goto(w, "reset")
             [] OTHER -> Goto(w, "reuse")

\* ------------------------------------------ ApplyOtherEventsVersionChecking
EqualInfoDecisionMut(ms, info) ==
  IF info.lastEventID > ms.lastWriteEventID THEN "corrupted"
  ELSE IF ms.buffered THEN "flush"
  ELSE "accept"

\* the peer saw the last write version of the run: compare the event ids
EqualInfoDecision(ms, info) ==
  IF info.lastEventID > ms.lastWriteEventID THEN "corrupted"
  ELSE IF ms.buffered THEN "flush"
  ELSE IF info.lastEventID < ms.lastWriteEventID THEN "resolve"
  ELSE "accept"

ReplicationInfoDecisionMut(ms, info) ==
  IF info = NoInfo THEN "resolve"
  ELSE IF info.version # ms.lastWriteVersion THEN "resolve"
  ELSE EqualInfoDecision(ms, info)

\* request.replicationInfo[current cluster] against the run's last write
ReplicationInfoDecision(ms, info) ==
  IF info = NoInfo THEN "resolve"
  ELSE IF info.version > ms.lastWriteVersion THEN "impossibleRemoteClaim"
  ELSE IF info.version < ms.lastWriteVersion THEN "resolve"
  ELSE EqualInfoDecision(ms, info)

IncomingLessThanCurrentMut(ms, r) == FALSE

\* the batch is older than the last write of the run
IncomingLessThanCurrent(ms, r) == ms.lastWriteVersion > r.version

PrevActiveRemoteDecisionMut(ms, r) == "accept"

\* the last write of the run was authored by a remote cluster
PrevActiveRemoteDecision(ms, r) ==
  IF IsVersionFromSameCluster(r.version, ms.lastWriteVersion)
  THEN "accept" ELSE "moreThan2DC"

VersionCheckDecisionMut(ms, r) ==
  IF ms.lastWriteVersion > r.version THEN "staleRunning"
  ELSE IF ms.lastWriteVersion = r.version THEN "accept"
  ELSE IF ClusterNameForFailoverVersion(ms.lastWriteVersion) # CurrentCluster
  THEN "accept"
  ELSE "resolve"

VersionCheckDecision(ms, r) ==
  IF IncomingLessThanCurrent(ms, r)
  THEN IF IsWorkflowExecutionRunning(ms) THEN "staleRunning" ELSE "staleClosed"
  ELSE IF ms.lastWriteVersion = r.version THEN "accept"
  ELSE IF ClusterNameForFailoverVersion(ms.lastWriteVersion) # CurrentCluster
  THEN PrevActiveRemoteDecision(ms, r)
  ELSE ReplicationInfoDecision(ms, r.info)

ResetEventIDMut(ms, r) == ms.lastWriteEventID

\* event id the conflict resolver is asked to rebuild the run at
ResetEventID(ms, r) ==
  IF r.info = NoInfo \/ r.info.version < ms.lastWriteVersion
  THEN ms.replicated
  ELSE r.info.lastEventID

FlushBufferedEventsMut(ms) ==
  LET versioned == UpdateCurrentVersion(ms, ms.lastWriteVersion)
      failed == IF versioned.pendingDecision
                THEN AddDecisionTaskFailedEvent(versioned) ELSE versioned
  IN CloseTransaction([failed EXCEPT !.buffered = FALSE])

\* flush of the buffered events: fail the in-flight decision, schedule another
FlushBufferedEvents(ms) ==
  LET versioned == UpdateCurrentVersion(ms, ms.lastWriteVersion)
      failed == IF versioned.pendingDecision
                THEN AddDecisionTaskFailedEvent(versioned) ELSE versioned
      decided == IF failed.pendingDecision THEN failed
                 ELSE AddDecisionTaskScheduledEvent(failed)
  IN CloseTransaction([decided EXCEPT !.buffered = FALSE])

\* ------------------------------------------------- conflict resolver reset
RECURSIVE Replay(_, _)
Replay(ms, events) ==
  IF events = <<>> THEN ms
  ELSE Replay(ApplyEvent(UpdateCurrentVersion(ms, Head(events).version),
                         Head(events).type),
              Tail(events))

\* mutable state rebuilt from the committed history up to lastEventID
ResetMutableState(ms, lastEventID) ==
  LET history == SubSeq(ms.events, 1, lastEventID)
      rebuilt == Replay(NewMutableState(history[1].version), history)
  IN [CloseTransaction(rebuilt) EXCEPT
        !.lastEventTaskID = ms.lastEventTaskID,
        !.replicated = IF ms.replicated < lastEventID THEN ms.replicated
                       ELSE lastEventID]

\* ------------------------------------ ApplyOtherEvents / ApplyReplicationTask
DropsClosedMut(ms, r) ==
  ~IsWorkflowExecutionRunning(ms) /\ ~r.forceBufferEvents

\* ApplyReplicationTask on a closed run returns at once, whatever the
\* request's forceBufferEvents says
DropsClosed(ms, r) == ~IsWorkflowExecutionRunning(ms)

ApplyDecisionMut(ms, r) ==
  IF r.first > ms.nextEventID
  THEN IF IsWorkflowExecutionRunning(ms) THEN "retryBuffer" ELSE "dropClosed"
  ELSE IF IsWorkflowExecutionRunning(ms) THEN "apply" ELSE "dropClosed"

ApplyDecision(ms, r) ==
  IF r.first < ms.nextEventID THEN "duplicate"
  ELSE IF DropsClosed(ms, r) THEN "dropClosed"
  ELSE IF r.first > ms.nextEventID THEN "retryBuffer"
  ELSE "apply"

RetryBufferEventsMut(ms, r) ==
  RetryTask("ErrRetryBufferEvents", r.run, r.first)

\* the batch starts beyond the next event of the run: the gap is reported
RetryBufferEvents(ms, r) ==
  RetryTask("ErrRetryBufferEvents", r.run, ms.nextEventID)

ApplyReplicationTaskMut(ms, r) ==
  CloseTransaction(Replicated(ApplyEvents(UpdateCurrentVersion(ms, r.version),
                                          <<Head(r.events)>>),
                              r.taskID))

ApplyReplicationTask(ms, r) ==
  CloseTransaction(Replicated(ApplyEvents(UpdateCurrentVersion(ms, r.version), r.events),
                              r.taskID))

\* version checking and append of a batch for a known run, under its lock
VersionCheck(w) ==
  /\ pc[w] = "versionCheck"
  /\ UNCHANGED <<current, branches, req>>
  /\ LET run == req[w].run
         ms == store[run]
         v == VersionCheckDecision(ms, req[w])
         a == ApplyDecision(ms, req[w])
     IN
     CASE v = "staleRunning" ->
            /\ store' = [store EXCEPT ![run] = ReapplyEvents(ms, req[w].events)]
            /\ Logs(w, ReapplyCalls(ms, req[w].events, run))
            /\ UNCHANGED loc
            /\ Finish(w, Success)
       [] v = "staleClosed" ->
            /\ loc' = [loc EXCEPT ![w].path = "closed"]
            /\ UNCHANGED <<store, calls>>
            /\ Goto(w, "getCurrent")
       [] v = "moreThan2DC" ->
            /\ UNCHANGED <<store, calls, loc>>
            /\ Finish(w, [kind |-> "error", msg |-> "ErrMoreThan2DC"])
       [] v = "impossibleRemoteClaim" ->
            /\ UNCHANGED <<store, calls, loc>>
            /\ Finish(w, [kind |-> "error",
                          msg |-> "ErrImpossibleRemoteClaimSeenHigherVersion"])
       [] v = "corrupted" ->
            /\ UNCHANGED <<store, calls, loc>>
            /\ Finish(w, [kind |-> "error", msg |-> "ErrCorruptedReplicationInfo"])
       [] v = "resolve" ->
            /\ loc' = [loc EXCEPT ![w].lastEventID = ResetEventID(ms, req[w]),
                                  ![w].path = "resolve"]
            /\ UNCHANGED <<store, calls>>
            /\ Goto(w, "resolve")
       [] v = "flush" ->
            /\ loc' = [loc EXCEPT ![w].lastEventID = ResetEventID(ms, req[w]),
                                  ![w].path = "resolve"]
            /\ store' = [store EXCEPT ![run] = FlushBufferedEvents(ms)]
            /\ Logs(w, <<[op |-> "UpdateCurrentVersion", run |-> run,
                          version |-> ms.lastWriteVersion],
                         [op |-> "AddDecisionTaskFailedEvent", run |-> run,
                          cause |-> "FailoverCloseDecision"],
                         [op |-> "AddDecisionTaskScheduledEvent", run |-> run],
                         [op |-> "UpdateAsActive", run |-> run]>>)
            /\ Goto(w, "resolve")
       [] OTHER ->
            /\ UNCHANGED loc
            /\ CASE a = "apply" ->
                      /\ store' = [store EXCEPT ![run] = ApplyReplicationTask(ms, req[w])]
                      /\ Logs(w, <<[op |-> "applyEvents", run |-> run],
                                   [op |-> "UpdateAsPassive", run |-> run]>>)
                      /\ Finish(w, Success)
                 [] a = "retryBuffer" ->
                      /\ UNCHANGED <<store, calls>>
                      /\ Finish(w, RetryBufferEvents(ms, req[w]))
                 [] OTHER ->
                      /\ UNCHANGED <<store, calls>>
                      /\ Finish(w, Success)

ResolveMut(w) ==
  /\ pc[w] = "resolve"
  /\ UNCHANGED <<store, current, branches, req>>
  /\ LET run == req[w].run
         ms == store[run]
         cur == store[current]
     IN
     IF IsWorkflowExecutionRunning(ms)
     THEN /\ loc' = [loc EXCEPT ![w].prevRunID = run,
                                ![w].prevLastWriteVersion = ms.lastWriteVersion]
          /\ UNCHANGED calls
          /\ Goto(w, "reset")
     ELSE /\ Log(w, [op |-> "GetCurrentExecution"])
          /\ IF ~IsWorkflowExecutionRunning(cur)
             THEN /\ loc' = [loc EXCEPT ![w].prevRunID = current,
                                        ![w].prevLastWriteVersion = cur.lastWriteVersion]
                  /\ Goto(w, "reset")
             ELSE IF cur.lastWriteVersion <= req[w].version
             THEN /\ loc' = [loc EXCEPT ![w].cur = current]
                  /\ Goto(w, "terminate")
             ELSE /\ UNCHANGED loc
                  /\ Finish(w, Success)

\* conflictResolutionTerminateCurrentRunningIfNotSelf
Resolve(w) ==
  /\ pc[w] = "resolve"
  /\ UNCHANGED <<store, current, branches, req>>
  /\ LET run == req[w].run
         ms == store[run]
         cur == store[current]
     IN
     IF IsWorkflowExecutionRunning(ms)
     THEN /\ loc' = [loc EXCEPT ![w].prevRunID = run,
                                ![w].prevLastWriteVersion = ms.lastWriteVersion]
          /\ UNCHANGED calls
          /\ Goto(w, "reset")
     ELSE /\ Log(w, [op |-> "GetCurrentExecution"])
          /\ IF ~IsWorkflowExecutionRunning(cur)
             THEN /\ loc' = [loc EXCEPT ![w].prevRunID = current,
                                        ![w].prevLastWriteVersion = cur.lastWriteVersion]
                  /\ Goto(w, "reset")
             ELSE IF cur.lastWriteVersion < req[w].version
             THEN /\ loc' = [loc EXCEPT ![w].cur = current]
                  /\ Goto(w, "terminate")
             ELSE /\ UNCHANGED loc
                  /\ Finish(w, Success)

\* conflict resolver reset, then ApplyOtherEvents on the rebuilt state
Reset(w) ==
  /\ pc[w] = "reset"
  /\ UNCHANGED <<branches, req, loc>>
  /\ LET run == req[w].run
         ms == store[run]
         mid == ResetMutableState(ms, loc[w].lastEventID)
         a == ApplyDecision(mid, req[w])
         reset == [op |-> "reset", run |-> run, prevRunID |-> loc[w].prevRunID,
                   version |-> loc[w].prevLastWriteVersion,
                   lastEventID |-> loc[w].lastEventID]
     IN
     CASE a = "apply" ->
            IF /\ current = loc[w].prevRunID
               /\ store[current].lastWriteVersion = loc[w].prevLastWriteVersion
            THEN /\ store' = [store EXCEPT ![run] = ApplyReplicationTask(mid, req[w])]
                 /\ current' = run
                 /\ Logs(w, <<reset, [op |-> "applyEvents", run |-> run],
                              [op |-> "UpdateAsPassive", run |-> run]>>)
                 /\ Finish(w, Success)
            ELSE /\ UNCHANGED <<store, current>>
                 /\ Logs(w, <<reset, [op |-> "applyEvents", run |-> run]>>)
                 /\ Finish(w, [kind |-> "error", msg |-> "ConditionFailed"])
       [] a = "retryBuffer" ->
            /\ UNCHANGED <<store, current>>
            /\ Log(w, reset)
            /\ Finish(w, RetryBufferEvents(mid, req[w]))
       [] OTHER ->
            /\ UNCHANGED <<store, current>>
            /\ Log(w, reset)
            /\ Finish(w, Success)

ResetFailsMut(w) ==
  /\ pc[w] = "reset"
  /\ Log(w, [op |-> "reset", run |-> req[w].run, prevRunID |-> loc[w].prevRunID,
              version |-> loc[w].prevLastWriteVersion,
              lastEventID |-> loc[w].lastEventID])
  /\ store' = [store EXCEPT ![req[w].run] =
                 ResetMutableState(store[req[w].run], loc[w].lastEventID)]
  /\ UNCHANGED <<current, branches, req, loc>>
  /\ Finish(w, [kind |-> "error", msg |-> "ConflictResolverFailed"])

\* the conflict resolver fails: it has written nothing, its error is returned
ResetFails(w) ==
  /\ pc[w] = "reset"
  /\ Log(w, [op |-> "reset", run |-> req[w].run, prevRunID |-> loc[w].prevRunID,
              version |-> loc[w].prevLastWriteVersion,
              lastEventID |-> loc[w].lastEventID])
  /\ UNCHANGED <<store, current, branches, req, loc>>
  /\ Finish(w, [kind |-> "error", msg |-> "ConflictResolverFailed"])

\* the conflict resolver of the request of worker w failed
ResolverFailed(w) ==
  /\ pc[w] = "done"
  /\ result[w] = [kind |-> "error", msg |-> "ConflictResolverFailed"]

\* active side of the current cluster: an event arrives while a decision is
\* in flight and is buffered; none arrives between a response and the
\* redelivery of its request
BufferEvent ==
  /\ snap = NoSnap
  /\ \A w \in Workers : pc[w] # "done"
  /\ \E r \in RunIDs :
       /\ LockFree(r)
       /\ Exists(r)
       /\ IsWorkflowExecutionRunning(store[r])
       /\ store[r].pendingDecision
       /\ ~store[r].buffered
       /\ ClusterNameForFailoverVersion(store[r].lastWriteVersion) = CurrentCluster
       /\ store' = [store EXCEPT ![r].buffered = TRUE]
  /\ UNCHANGED <<current, branches, lock, pc, req, loc, calls, result, snap>>

\* ----------------------------------------------------------------- Init
\* persisted states left by earlier requests; their last replication task
\* has an id that requests can fall below, meet or exceed
SeedTaskID == MaxTaskID - 1

Rows(r1, r2) ==
  [r \in RunIDs |-> IF r = 1 THEN r1 ELSE IF r = 2 THEN r2 ELSE Absent]

\* a run created by a start request
StartedRun(h, v) == StartSnapshot(h, v, SeedTaskID)

\* a run closed by a replicated batch
CompletedRun(v) ==
  ApplyReplicationTask(StartedRun(<<"Started", "DecisionScheduled">>, v),
                       [version |-> v, events |-> <<"Completed">>,
                        taskID |-> SeedTaskID])

\* a run that took one batch after its start
AppendedRun(v) ==
  ApplyReplicationTask(StartedRun(<<"Started", "DecisionScheduled">>, v),
                       [version |-> v, events |-> <<"Signaled">>,
                        taskID |-> SeedTaskID])

\* a run the current cluster wrote a signal to after its start was replicated
SignaledRun(v) ==
  ReapplyEvents(StartedRun(<<"Started", "DecisionScheduled">>, v), <<"Signaled">>)

\* nothing replicated yet; one run, started, appended to, completed or
\* terminated for a newer run that is still to come; a closed run followed
\* by a started one
Seeds ==
  {[store |-> Rows(Absent, Absent), current |-> EmptyRunID, branches |-> {}]}
  \cup {[store |-> Rows(StartedRun(h, v), Absent), current |-> 1, branches |-> {1}] :
          h \in StartHistories, v \in Versions}
  \cup {[store |-> Rows(AppendedRun(v), Absent), current |-> 1, branches |-> {1}] :
          v \in Versions}
  \cup {[store |-> Rows(CompletedRun(v), Absent), current |-> 1, branches |-> {1}] :
          v \in Versions}
  \cup {[store |-> Rows(SignaledRun(v), Absent), current |-> 1, branches |-> {1}] :
          v \in {u \in Versions : ClusterNameForFailoverVersion(u) = CurrentCluster}}
  \cup {[store |-> Rows(TerminateWorkflow(StartedRun(<<"Started", "Signaled">>, v)),
                        Absent),
         current |-> 1, branches |-> {1}] : v \in Versions}
  \cup {[store |-> Rows(CompletedRun(v),
                        StartedRun(<<"Started", "DecisionScheduled">>, u)),
         current |-> 2, branches |-> {1, 2}] : v \in Versions, u \in Versions}
  \cup {[store |-> Rows(TerminateWorkflow(
                          StartedRun(<<"Started", "DecisionScheduled">>, p[1])),
                        StartedRun(<<"Started", "Signaled">>, p[2])),
         current |-> 2, branches |-> {1, 2}] :
          p \in {q \in Versions \X Versions : q[1] < q[2]}}

Init ==
  /\ \E seed \in Seeds :
       /\ store = seed.store
       /\ current = seed.current
       /\ branches = seed.branches
  /\ Idle

Step(w) ==
  \/ LockTarget(w)
  \/ Create(w)
  \/ CreateFails(w)
  \/ Reuse(w)
  \/ DeleteBranch(w)
  \/ GetCurrent(w)
  \/ LockCurrent(w)
  \/ Terminate(w)
  \/ VersionCheck(w)
  \/ Resolve(w)
  \/ Reset(w)
  \/ ResetFails(w)

\* one request, possibly delivered twice in a row
Next ==
  \/ Begin("w1")
  \/ Redeliver("w1")
  \/ Step("w1")
  \/ BufferEvent

Spec == Init /\ [][Next]_vars

\* requests handled in parallel by the workers; they carry no replicationInfo,
\* so that events buffered by the active side play no part
NextConc ==
  \E w \in Workers : BeginConc(w) \/ Step(w)

SpecConc == Init /\ [][NextConc]_vars

\* --------------------------------------------------------------- properties
\* no request is in progress
Quiescent == \A w \in Workers : pc[w] \in {"idle", "done"}

ExistingRuns == {r \in RunIDs : Exists(r)}

RunningRuns == {r \in ExistingRuns : IsWorkflowExecutionRunning(store[r])}

LastEventType(ms) == ms.events[Len(ms.events)].type

\* C1 as stated: at every quiescent moment a workflow that has at least one
\* run has exactly one run in state Created or Running.
C1_ExactlyOneRunning ==
  (Quiescent /\ (\E w \in Workers : pc[w] = "done") /\ ExistingRuns # {}) => Cardinality(RunningRuns) = 1

\* C1 amended: at every quiescent moment a workflow has at most one run in
\* state Created or Running (it has none when its runs are all closed).
C1_AtMostOneRunning ==
  Quiescent => Cardinality(RunningRuns) <= 1

C1_Witness ==
  /\ Quiescent
  /\ \A w \in Workers : pc[w] = "done"
  /\ Cardinality(ExistingRuns) = 2
  /\ Cardinality(RunningRuns) = 1
  /\ \E r \in ExistingRuns : LastEventType(store[r]) = "Terminated"

\* C2: for every run, after every successful commit (creation, passive
\* append, active commit of a signal reapplication, termination, flush of
\* buffered events) nextEventID - 1 equals lastWriteEventID.
C2_LastWriteEventID ==
  \A r \in ExistingRuns : store[r].nextEventID - 1 = store[r].lastWriteEventID

C2_Witness ==
  \E r \in ExistingRuns :
    /\ pc["w1"] = "resolve"
    /\ req["w1"].run = r
    /\ LastEventType(store[r]) = "DecisionScheduled"
    /\ \E i \in DOMAIN store[r].events : store[r].events[i].type = "DecisionFailed"
    /\ store[r].lastWriteEventID = 4

\* worker w is inside the handler with the context of its request's run
Holding(w) ==
  /\ pc[w] \in {"create", "reuse", "deleteBranch", "getCurrent", "lockCurrent",
                "terminate", "versionCheck", "resolve", "reset"}
  /\ loc[w].path # "missing"

MutualExclusion ==
  \A w1, w2 \in Workers :
    (w1 # w2 /\ Holding(w1) /\ Holding(w2)) => req[w1].run # req[w2].run

Contiguous ==
  \A r \in ExistingRuns :
    /\ \A i \in DOMAIN store[r].events : store[r].events[i].eventID = i
    /\ store[r].nextEventID = Len(store[r].events) + 1

\* a row whose context lock is held changes only in a step of the holder
WritesUnderLock ==
  \A r \in RunIDs : \A w \in Workers :
    (store'[r] # store[r] /\ lock[r] = w) => pc'[w] # pc[w]

Waiting(w) == pc[w] \in {"lockCurrent", "terminate"}

Redelivered(w) == pc[w] = "done" /\ loc[w].redelivered

\* outcome of a delivery whose CreateWorkflowExecution failed in persistence
InternalError == [kind |-> "error", msg |-> "Internal"]

ReappliedInto(w, r) ==
  \E i \in DOMAIN calls[w] :
    calls[w][i] = [op |-> "AddWorkflowExecutionSignaled", run |-> r]

Reapplied(w) == \E r \in RunIDs : ReappliedInto(w, r)

\* a delivery failed in persistence or in the conflict resolver
C5_Failed(res) ==
  res \in {InternalError, [kind |-> "error", msg |-> "ConflictResolverFailed"]}

SignalCount(ms) == Len(SelectSeq(ms.events, LAMBDA e : e.type = "Signaled"))

\* C6: each delivery of a batch whose signals are reapplied into a running
\* run appends one signal event per signal of the batch: after the second
\* delivery the run holds the signals of the first delivery and as many again.
C6_SignalReapplyAdditive ==
  \A w \in Workers : \A r \in RunIDs :
    (Redelivered(w) /\ ReappliedInto(w, r)) =>
      SignalCount(store[r]) =
        SignalCount(snap.state.store[r]) + Len(SignalEvents(req[w].events))

C6_Witness ==
  \E r \in RunIDs :
    /\ Redelivered("w1")
    /\ ReappliedInto("w1", r)
    /\ store[r].events[1].type = "Started"
    /\ store[r].events[2].type = "DecisionScheduled"
    /\ SignalCount(snap.state.store[r]) = 1
    /\ SignalCount(store[r]) = 2

\* the start request of worker w has returned and its create did not fail
\* in persistence
Started(w) == pc[w] = "done" /\ req[w].start /\ result[w] # InternalError

AppendCall(w) == [op |-> "AppendHistoryNodes", run |-> req[w].run]

BrandNewCall(w) ==
  [op |-> "CreateWorkflowExecution", mode |-> "BrandNew",
   previousRunID |-> EmptyRunID, previousLastWriteVersion |-> 0,
   snapshot |-> Snapshot(w), policy |-> "passive"]

\* C7: a start request for a workflow without a run appends the history
\* branch, issues exactly one CreateWorkflowExecution (mode BrandNew, empty
\* previousRunID, the snapshot closed with the passive policy) and returns
\* success; the run becomes the current run and nothing else is called.
C7_BrandNew ==
  \A w \in Workers :
    (Started(w) /\ loc[w].err = NoErr) =>
      /\ calls[w] = <<AppendCall(w), BrandNewCall(w)>>
      /\ result[w] = Success
      /\ ExistingRuns = {req[w].run}
      /\ store[req[w].run] = Snapshot(w)
      /\ current = req[w].run
      /\ req[w].run \in branches

C7_Witness ==
  /\ Started("w1")
  /\ loc["w1"].err = NoErr
  /\ ~loc["w1"].redelivered
  /\ result["w1"] = Success
  /\ current = req["w1"].run

\* C8: when the create reports AlreadyStarted for the run of the request
\* itself, the start request returns success after the append and the one
\* create: no second create, termination, branch deletion or reapplication,
\* and a redelivered request leaves the persisted state untouched.
C8_SameRunID ==
  \A w \in Workers :
    (Started(w) /\ loc[w].err.runID = req[w].run) =>
      /\ result[w] = Success
      /\ calls[w] = <<AppendCall(w), BrandNewCall(w)>>
      /\ req[w].run \in branches
      /\ loc[w].redelivered => Persisted = snap.state

C8_Witness ==
  /\ Started("w1")
  /\ loc["w1"].err.runID = req["w1"].run
  /\ loc["w1"].redelivered
  /\ snap.result = Success
  /\ result["w1"] = Success

\* the create of worker w reported AlreadyStarted with another, closed run
CurrentClosed(w) ==
  /\ Started(w)
  /\ loc[w].err.runID \notin {EmptyRunID, req[w].run}
  /\ loc[w].err.state = "Completed"

ReuseCall(w) ==
  [op |-> "CreateWorkflowExecution", mode |-> "WorkflowIDReuse",
   previousRunID |-> loc[w].err.runID,
   previousLastWriteVersion |-> loc[w].err.lastWriteVersion,
   snapshot |-> Snapshot(w), policy |-> "passive"]

\* C9: when the create reports AlreadyStarted with another run that is
\* closed, the start request retries the create exactly once with mode
\* WorkflowIDReuse, previousRunID and previousLastWriteVersion of that run,
\* and returns success, whatever the order of the two versions; the branch
\* is kept and the run becomes the current run.
C9_CurrentClosedReuse ==
  \A w \in Workers :
    CurrentClosed(w) =>
      /\ calls[w] = <<AppendCall(w), BrandNewCall(w), ReuseCall(w)>>
      /\ result[w] = Success
      /\ req[w].run \in branches
      /\ store[req[w].run] = Snapshot(w)
      /\ current = req[w].run

C9_Witness ==
  /\ CurrentClosed("w1")
  /\ req["w1"].version = loc["w1"].err.lastWriteVersion
  /\ result["w1"] = Success
  /\ current = req["w1"].run

\* the closed current run was last written at a version above the request's
StaleAgainstClosed(w) ==
  CurrentClosed(w) /\ req[w].version < loc[w].err.lastWriteVersion

\* C10 as stated: a start request older than the closed current run is
\* rejected: the create is not retried, the appended branch is deleted with
\* DeleteHistoryBranch, and the request returns success.
C10_StaleClosedRejected ==
  \A w \in Workers :
    StaleAgainstClosed(w) =>
      /\ \A i \in DOMAIN calls[w] : calls[w][i] # ReuseCall(w)
      /\ \E i \in DOMAIN calls[w] : calls[w][i].op = "DeleteHistoryBranch"
      /\ req[w].run \notin branches
      /\ result[w] = Success

\* C10 amended: a start request older than the closed current run is
\* accepted like any other start against a closed run: the create is retried
\* with mode WorkflowIDReuse, DeleteHistoryBranch is not called, the branch
\* is kept, and the request returns success.
C10_StaleClosedReused ==
  \A w \in Workers :
    StaleAgainstClosed(w) =>
      /\ \E i \in DOMAIN calls[w] : calls[w][i] = ReuseCall(w)
      /\ \A i \in DOMAIN calls[w] : calls[w][i].op # "DeleteHistoryBranch"
      /\ req[w].run \in branches
      /\ Exists(req[w].run)
      /\ result[w] = Success

C10_Witness ==
  /\ StaleAgainstClosed("w1")
  /\ result["w1"] = Success
  /\ Len(calls["w1"]) = 3
  /\ req["w1"].version + 1 < loc["w1"].err.lastWriteVersion

\* the create of worker w reported AlreadyStarted with another, running run
CurrentRunning(w) ==
  /\ Started(w)
  /\ loc[w].err.runID \notin {EmptyRunID, req[w].run}
  /\ loc[w].err.state \in {"Created", "Running"}

StaleAgainstRunning(w) ==
  CurrentRunning(w) /\ req[w].version < loc[w].err.lastWriteVersion

DeleteBranchCall(w) == [op |-> "DeleteHistoryBranch", run |-> req[w].run]

GetCurrentCall == [op |-> "GetCurrentExecution"]

SignaledCall(r) == [op |-> "AddWorkflowExecutionSignaled", run |-> r]

ActiveCommit(r) == [op |-> "UpdateAsActive", run |-> r]

\* number of calls c in the log of worker w
Count(w, c) == Cardinality({i \in DOMAIN calls[w] : calls[w][i] = c})

HasOp(w, op) == \E i \in DOMAIN calls[w] : calls[w][i].op = op

\* types of the events that new holds beyond those of old
Added(old, new) ==
  [i \in 1..(Len(new.events) - Len(old.events)) |->
     new.events[Len(old.events) + i].type]

\* what a signal reapplication of events adds to a running run
ReappliedTypes(old, events) ==
  IF SignalEvents(events) = <<>> THEN <<>>
  ELSE SignalEvents(events)
       \o (IF old.pendingDecision THEN <<>> ELSE <<"DecisionScheduled">>)

\* the step of worker w changes run r by a signal reapplication of its batch
\* committed at the run's last write version, and no other run
ReappliesInto(w, r) ==
  /\ \A q \in RunIDs \ {r} : store'[q] = store[q]
  /\ SubSeq(store'[r].events, 1, Len(store[r].events)) = store[r].events
  /\ Added(store[r], store'[r]) = ReappliedTypes(store[r], req[w].events)
  /\ \A i \in DOMAIN store'[r].events :
       i > Len(store[r].events) =>
         store'[r].events[i].version = store[r].lastWriteVersion
  /\ SignalEvents(req[w].events) = <<>> => store'[r] = store[r]
  /\ SignalEvents(req[w].events) # <<>> =>
       /\ store'[r].pendingDecision
       /\ store'[r].lastWriteEventID = Len(store'[r].events)
       /\ store'[r].lastWriteVersion = store[r].lastWriteVersion

C11_Outcome ==
  \A w \in Workers :
    StaleAgainstRunning(w) =>
      LET cur == loc[w].err.runID
          n == Len(SignalEvents(req[w].events))
      IN /\ result[w] = Success
         /\ SubSeq(calls[w], 1, 4) =
              <<AppendCall(w), BrandNewCall(w), DeleteBranchCall(w), GetCurrentCall>>
         /\ \A i \in DOMAIN calls[w] : calls[w][i] # ReuseCall(w)
         /\ Count(w, DeleteBranchCall(w)) = 1
         /\ ~HasOp(w, "AddWorkflowExecutionTerminatedEvent")
         /\ req[w].run \notin branches
         /\ ~Exists(req[w].run)
         /\ current = cur
         /\ IsWorkflowExecutionRunning(store[cur])
         /\ Count(w, SignaledCall(cur)) = n
         /\ Count(w, ActiveCommit(cur)) = (IF n = 0 THEN 0 ELSE 1)
         /\ n = 0 => Len(calls[w]) = 4

C11_ReapplyStep ==
  \A w \in Workers :
    (pc[w] = "lockCurrent" /\ loc[w].path = "stale" /\ pc'[w] # pc[w]) =>
      /\ pc'[w] = "done"
      /\ ReappliesInto(w, loc[w].cur)

\* C11: a start request older than the running current run is rejected: no
\* create with WorkflowIDReuse, the appended branch is deleted with
\* DeleteHistoryBranch, every signal of the history is reapplied to the
\* current run (a decision scheduled iff none is pending, one active commit),
\* the current run stays running, and the request returns success.
C11_StaleRunningRejected ==
  []C11_Outcome /\ [][C11_ReapplyStep]_vars

C11_Witness ==
  LET cur == loc["w1"].err.runID IN
  /\ StaleAgainstRunning("w1")
  /\ result["w1"] = Success
  /\ Count("w1", SignaledCall(cur)) = 1
  /\ Count("w1", [op |-> "AddDecisionTaskScheduledEvent", run |-> cur]) = 1
  /\ LastEventType(store[cur]) = "DecisionScheduled"

EqualAgainstRunning(w) ==
  CurrentRunning(w) /\ req[w].version = loc[w].err.lastWriteVersion

\* calls and effects of a start request at the version of the running
\* current run, common to both outcomes
C12_Frame(w) ==
  /\ calls[w] = <<AppendCall(w), BrandNewCall(w), GetCurrentCall>>
  /\ ~Exists(req[w].run)
  /\ current = loc[w].err.runID
  /\ IsWorkflowExecutionRunning(store[current])

RetryExisting(w) ==
  RetryTask("ErrRetryExistingWorkflow", loc[w].err.runID,
            store[loc[w].err.runID].nextEventID)

\* C12 as stated: a start request at the version of the running current run
\* returns success when its taskID is at most the current run's
\* lastEventTaskID and RetryTask(ErrRetryExistingWorkflow, currentRunID,
\* currentNextEventID) otherwise.
C12_SuccessUpToTaskID ==
  \A w \in Workers :
    EqualAgainstRunning(w) =>
      /\ C12_Frame(w)
      /\ result[w] = IF req[w].taskID <= store[current].lastEventTaskID
                     THEN Success ELSE RetryExisting(w)

C12_Outcome ==
  \A w \in Workers :
    EqualAgainstRunning(w) =>
      /\ C12_Frame(w)
      /\ result[w] = IF req[w].taskID < store[current].lastEventTaskID
                     THEN Success ELSE RetryExisting(w)

C12_Step ==
  \A w \in Workers :
    (pc[w] \in {"getCurrent", "lockCurrent"} /\ loc[w].path = "equal"
     /\ pc'[w] # pc[w]) =>
      /\ store' = store
      /\ current' = current
      /\ pc[w] = "lockCurrent" => pc'[w] = "done"

\* C12 amended: a start request at the version of the running current run
\* returns success only when its taskID is strictly below the current run's
\* lastEventTaskID; at an equal or larger taskID it returns
\* RetryTask(ErrRetryExistingWorkflow, currentRunID, currentNextEventID).  In
\* both cases no run is written, the current run is not terminated and the
\* incoming run is not created.
C12_SuccessBelowTaskID ==
  []C12_Outcome /\ [][C12_Step]_vars

C12_Witness ==
  /\ EqualAgainstRunning("w1")
  /\ req["w1"].taskID = store[current].lastEventTaskID
  /\ result["w1"] = RetryExisting("w1")
  /\ store[current].nextEventID = 4

NewerThanRunning(w) ==
  CurrentRunning(w) /\ req[w].version > loc[w].err.lastWriteVersion

\* run r was closed by a termination event, committed at version v
TerminatedAt(r, v) ==
  /\ ~IsWorkflowExecutionRunning(store[r])
  /\ LastEventType(store[r]) = "Terminated"
  /\ store[r].events[Len(store[r].events)].eventID = Len(store[r].events)
  /\ store[r].events[Len(store[r].events)].version = v
  /\ store[r].lastWriteVersion = v
  /\ store[r].lastWriteEventID = Len(store[r].events)
  /\ store[r].nextEventID = Len(store[r].events) + 1

\* calls that terminate run r whose last event is the termination event
TerminationCalls(r, v) ==
  <<[op |-> "UpdateCurrentVersion", run |-> r, version |-> v],
    [op |-> "AddWorkflowExecutionTerminatedEvent", run |-> r,
     eventID |-> Len(store[r].events),
     reason |-> "history replicator terminating workflow",
     identity |-> "history-service"],
    ActiveCommit(r)>>

\* C13: a start request newer than the running current run terminates that
\* run under its own lock (termination event at the run's nextEventID with
\* reason "history replicator terminating workflow" and identity
\* "history-service", committed as active) and only then retries the create
\* with mode WorkflowIDReuse, previousRunID the terminated run and
\* previousLastWriteVersion its last write version; it returns success.
C13_TerminateThenReuse ==
  \A w \in Workers :
    LET cur == loc[w].err.runID
        v == loc[w].err.lastWriteVersion
        terminated == <<AppendCall(w), BrandNewCall(w)>> \o TerminationCalls(cur, v)
    IN
    /\ (pc[w] = "reuse" /\ loc[w].path = "terminate") =>
         /\ TerminatedAt(cur, v)
         /\ calls[w] = terminated
         /\ ~Exists(req[w].run)
         /\ current = cur
         /\ lock[cur] # w
    /\ NewerThanRunning(w) =>
         /\ TerminatedAt(cur, v)
         /\ calls[w] = Append(terminated, ReuseCall(w))
         /\ result[w] = Success
         /\ store[req[w].run] = Snapshot(w)
         /\ current = req[w].run
         /\ req[w].run \in branches

C13_Witness ==
  /\ NewerThanRunning("w1")
  /\ result["w1"] = Success
  /\ current = req["w1"].run
  /\ Len(calls["w1"]) = 6
  /\ Len(store[loc["w1"].err.runID].events) = 4

\* the batch of worker w was for a run unknown locally
Missing(w) == pc[w] = "done" /\ ~req[w].start /\ loc[w].path = "missing"

\* C14: a batch for an unknown run of a workflow that has no current run
\* (GetCurrentExecution reports NotFound) returns RetryTask(ErrWorkflowNotFound)
\* for the run of the request with nextEventID 1, and writes nothing.
C14_MissingCurrent ==
  \A w \in Workers :
    (Missing(w) /\ loc[w].cur = EmptyRunID) =>
      /\ result[w] = [kind |-> "retry", msg |-> "ErrWorkflowNotFound",
                      run |-> req[w].run, nextEventID |-> 1]
      /\ calls[w] = <<GetCurrentCall>>
      /\ ExistingRuns = {}
      /\ current = EmptyRunID
      /\ branches = {}

C14_Witness ==
  /\ Missing("w1")
  /\ loc["w1"].cur = EmptyRunID
  /\ result["w1"].kind = "retry"
  /\ loc["w1"].redelivered
  /\ snap.result = result["w1"]

\* the batch of worker w, for a run unknown locally, was older than the last
\* write of the current run, which is running
StaleMissing(w) ==
  /\ Missing(w)
  /\ loc[w].cur # EmptyRunID
  /\ req[w].version < store[loc[w].cur].lastWriteVersion
  /\ IsWorkflowExecutionRunning(store[loc[w].cur])

C15_Outcome ==
  \A w \in Workers :
    StaleMissing(w) =>
      LET cur == loc[w].cur
          n == Len(SignalEvents(req[w].events))
      IN /\ result[w] = Success
         /\ ~Exists(req[w].run)
         /\ current = cur
         /\ calls[w][1] = GetCurrentCall
         /\ Count(w, SignaledCall(cur)) = n
         /\ Count(w, ActiveCommit(cur)) = (IF n = 0 THEN 0 ELSE 1)
         /\ n = 0 => calls[w] = <<GetCurrentCall>>
         /\ ~HasOp(w, "AddWorkflowExecutionTerminatedEvent")
         /\ ~HasOp(w, "CreateWorkflowExecution")

C15_ReapplyStep ==
  \A w \in Workers :
    (/\ pc[w] = "lockCurrent" /\ loc[w].path = "missing"
     /\ req[w].version < store[loc[w].cur].lastWriteVersion
     /\ IsWorkflowExecutionRunning(store[loc[w].cur])
     /\ pc'[w] # pc[w]) =>
      /\ pc'[w] = "done"
      /\ current' = current
      /\ ReappliesInto(w, loc[w].cur)

EqualMissing(w) ==
  /\ Missing(w)
  /\ loc[w].cur # EmptyRunID
  /\ req[w].version = store[loc[w].cur].lastWriteVersion
  /\ IsWorkflowExecutionRunning(store[loc[w].cur])

RetryCurrent(w) ==
  RetryTask("ErrWorkflowNotFound", loc[w].cur, store[loc[w].cur].nextEventID)

\* C16 as stated: a batch for an unknown run at the version of the running
\* current run returns RetryTask(ErrWorkflowNotFound) with the current run's
\* nextEventID when its taskID is strictly greater than the current run's
\* lastEventTaskID, and success when it is less than or equal.
C16_RetryAboveTaskID ==
  \A w \in Workers :
    EqualMissing(w) =>
      result[w] = IF req[w].taskID > store[loc[w].cur].lastEventTaskID
                  THEN RetryCurrent(w) ELSE Success

C16_Outcome ==
  \A w \in Workers :
    EqualMissing(w) =>
      /\ result[w] = IF req[w].taskID >= store[loc[w].cur].lastEventTaskID
                     THEN RetryCurrent(w) ELSE Success
      /\ calls[w] = <<GetCurrentCall>>
      /\ ~Exists(req[w].run)
      /\ current = loc[w].cur

C16_Step ==
  \A w \in Workers :
    (/\ pc[w] = "lockCurrent" /\ loc[w].path = "missing"
     /\ req[w].version = store[loc[w].cur].lastWriteVersion
     /\ IsWorkflowExecutionRunning(store[loc[w].cur])
     /\ pc'[w] # pc[w]) =>
      /\ pc'[w] = "done"
      /\ store' = store
      /\ current' = current

\* C16 amended: a batch for an unknown run at the version of the running
\* current run returns RetryTask(ErrWorkflowNotFound) for the current run
\* with its nextEventID when the batch's taskID is greater than or equal to
\* the current run's lastEventTaskID, and success only when it is strictly
\* less; the current run is not mutated in either case.
C16_RetryFromTaskID ==
  []C16_Outcome /\ [][C16_Step]_vars

C16_Witness ==
  /\ EqualMissing("w1")
  /\ req["w1"].taskID = store[loc["w1"].cur].lastEventTaskID
  /\ result["w1"] = RetryCurrent("w1")
  /\ result["w1"].nextEventID > FirstEventID

\* the batch of worker w, for a run unknown locally and not a reset request,
\* was newer than the last write of the current run
NewerMissing(w) ==
  /\ Missing(w)
  /\ ~req[w].resetWorkflow
  /\ loc[w].cur # EmptyRunID
  /\ req[w].version > store[loc[w].cur].lastWriteVersion

RetryFirst(w) ==
  [kind |-> "retry", msg |-> "ErrWorkflowNotFound", run |-> req[w].run,
   nextEventID |-> 1]

C17_Outcome ==
  \A w \in Workers :
    LET cur == loc[w].cur IN
    /\ NewerMissing(w) =>
         /\ result[w] = RetryFirst(w)
         /\ ~Exists(req[w].run)
         /\ current = cur
         /\ ~IsWorkflowExecutionRunning(store[cur])
         /\ ~HasOp(w, "CreateWorkflowExecution")
         /\ IF HasOp(w, "AddWorkflowExecutionTerminatedEvent")
            THEN /\ calls[w] = <<GetCurrentCall>>
                                 \o TerminationCalls(cur, store[cur].lastWriteVersion)
                 /\ TerminatedAt(cur, store[cur].lastWriteVersion)
            ELSE calls[w] = <<GetCurrentCall>>
    /\ (pc[w] = "terminate" /\ loc[w].path = "missing") =>
         /\ IsWorkflowExecutionRunning(store[cur])
         /\ req[w].version > store[cur].lastWriteVersion

C17_Step ==
  \A w \in Workers :
    LET cur == loc[w].cur IN
    /\ (/\ pc[w] = "lockCurrent" /\ loc[w].path = "missing"
        /\ req[w].version > store[cur].lastWriteVersion
        /\ pc'[w] # pc[w]) =>
         /\ store' = store
         /\ current' = current
         /\ pc'[w] = IF IsWorkflowExecutionRunning(store[cur])
                     THEN "terminate" ELSE "done"
    /\ (pc[w] = "terminate" /\ loc[w].path = "missing" /\ pc'[w] # pc[w]) =>
         /\ pc'[w] = "done"
         /\ current' = current
         /\ \A q \in RunIDs \ {cur} : store'[q] = store[q]
         /\ store'[cur].events =
              Append(store[cur].events,
                     [eventID |-> store[cur].nextEventID,
                      version |-> store[cur].lastWriteVersion,
                      type |-> "Terminated"])
         /\ store'[cur].state = "Completed"
         /\ store'[cur].lastWriteEventID = store[cur].nextEventID

ResetMissing(w) ==
  Missing(w) /\ req[w].resetWorkflow /\ loc[w].cur # EmptyRunID

\* the request of worker w was handed to the workflow resetor exactly once,
\* for the current run, and returned what the resetor returned
Delegated(w) ==
  \E o \in ResetOutcomes :
    /\ calls[w] = <<GetCurrentCall, ApplyResetEventCall(loc[w].cur, o)>>
    /\ result[w] = o

C18_Outcome ==
  \A w \in Workers :
    ResetMissing(w) =>
      (HasOp(w, "ApplyResetEvent") =>
         /\ Delegated(w)
         /\ ~IsWorkflowExecutionRunning(store[loc[w].cur])
         /\ req[w].version >= store[loc[w].cur].lastWriteVersion
         /\ ~Exists(req[w].run))

C18_Step ==
  \A w \in Workers :
    (/\ pc[w] = "lockCurrent" /\ loc[w].path = "missing"
     /\ req[w].resetWorkflow
     /\ ~IsWorkflowExecutionRunning(store[loc[w].cur])
     /\ req[w].version >= store[loc[w].cur].lastWriteVersion
     /\ pc'[w] # pc[w]) =>
      /\ pc'[w] = "done"
      /\ store' = store
      /\ current' = current
      /\ \E o \in ResetOutcomes :
           /\ calls'[w] = <<GetCurrentCall, ApplyResetEventCall(loc[w].cur, o)>>
           /\ result'[w] = o

StaleClosedTarget(w) == pc[w] = "done" /\ ~req[w].start /\ loc[w].path = "closed"

C19_Outcome ==
  \A w \in Workers :
    StaleClosedTarget(w) =>
      LET run == req[w].run
          n == Len(SignalEvents(req[w].events))
      IN /\ result[w] = Success
         /\ ~IsWorkflowExecutionRunning(store[run])
         /\ req[w].version < store[run].lastWriteVersion
         /\ calls[w][1] = GetCurrentCall
         /\ ~HasOp(w, "applyEvents")
         /\ ~HasOp(w, "UpdateAsPassive")
         /\ Count(w, SignaledCall(run)) = 0
         /\ Count(w, ActiveCommit(run)) = 0
         /\ (current # run /\ IsWorkflowExecutionRunning(store[current])) =>
              /\ Count(w, SignaledCall(current)) = n
              /\ Count(w, ActiveCommit(current)) = (IF n = 0 THEN 0 ELSE 1)

C19_Step ==
  \A w \in Workers :
    LET run == req[w].run
        cur == loc[w].cur
    IN
    /\ (/\ pc[w] = "versionCheck"
        /\ req[w].version < store[run].lastWriteVersion
        /\ ~IsWorkflowExecutionRunning(store[run])
        /\ pc'[w] # pc[w]) =>
         /\ store' = store
         /\ lock'[run] = w
         /\ pc'[w] = "getCurrent"
    /\ (pc[w] = "getCurrent" /\ loc[w].path = "closed" /\ pc'[w] # pc[w]) =>
         /\ store' = store
         /\ IF current = run
            THEN pc'[w] = "done" /\ result'[w] = Success
            ELSE pc'[w] = "lockCurrent" /\ lock'[run] = w /\ loc'[w].cur = current
    /\ (pc[w] = "lockCurrent" /\ loc[w].path = "closed" /\ pc'[w] # pc[w]) =>
         /\ cur # run
         /\ lock[cur] = NoWorker
         /\ lock'[cur] = NoWorker
         /\ store'[run] = store[run]
         /\ pc'[w] = "done"
         /\ result'[w] = Success
         /\ IsWorkflowExecutionRunning(store[cur]) => ReappliesInto(w, cur)

StaleRunningTarget(w) ==
  /\ pc[w] = "done" /\ ~req[w].start /\ loc[w].path = "none"
  /\ Exists(req[w].run)
  /\ req[w].version < store[req[w].run].lastWriteVersion
  /\ IsWorkflowExecutionRunning(store[req[w].run])

C20_Outcome ==
  \A w \in Workers :
    StaleRunningTarget(w) =>
      LET run == req[w].run
          n == Len(SignalEvents(req[w].events))
      IN /\ result[w] = Success
         /\ ~HasOp(w, "applyEvents")
         /\ ~HasOp(w, "UpdateAsPassive")
         /\ ~HasOp(w, "GetCurrentExecution")
         /\ n = 0 => calls[w] = <<>>
         /\ n > 0 =>
              /\ calls[w][1] = [op |-> "UpdateCurrentVersion", run |-> run,
                                version |-> store[run].lastWriteVersion]
              /\ calls[w][Len(calls[w])] = ActiveCommit(run)
              /\ Count(w, SignaledCall(run)) = n
              /\ Count(w, ActiveCommit(run)) = 1
              /\ \A i \in DOMAIN calls[w] : calls[w][i].run = run

C20_Step ==
  \A w \in Workers :
    (/\ pc[w] = "versionCheck"
     /\ req[w].version < store[req[w].run].lastWriteVersion
     /\ IsWorkflowExecutionRunning(store[req[w].run])
     /\ pc'[w] # pc[w]) =>
      /\ pc'[w] = "done"
      /\ result'[w] = Success
      /\ current' = current
      /\ ReappliesInto(w, req[w].run)

\* C20: a batch older than the last write of its run, which is running, is
\* never appended and returns success: its signal events are reapplied to
\* this same run (a decision scheduled iff none is pending) and committed as
\* active exactly once; without a signal event no mutator and no commit is
\* invoked on the run.
C20_StaleRunningReapplied ==
  []C20_Outcome /\ [][C20_Step]_vars

C20_Witness ==
  LET run == req["w1"].run IN
  /\ StaleRunningTarget("w1")
  /\ result["w1"] = Success
  /\ Count("w1", SignaledCall(run)) = 1
  /\ Count("w1", [op |-> "AddDecisionTaskScheduledEvent", run |-> run]) = 1
  /\ Len(calls["w1"]) = 4
  /\ ~loc["w1"].redelivered

\* ---------------------------------------------------------------- C21..C30
\* worker w takes the version-checking step for a batch newer than the last
\* write of its run
NewerBatchStep(w) ==
  /\ pc[w] = "versionCheck"
  /\ req[w].version > store[req[w].run].lastWriteVersion
  /\ pc'[w] # pc[w]

\* cluster that authored the last write of the target run of worker w
PrevActiveCluster(w) ==
  ClusterNameForFailoverVersion(store[req[w].run].lastWriteVersion)

ResetCalls(w) == {i \in DOMAIN calls[w] : calls[w][i].op = "reset"}

\* commits of run r by an update in the request of worker w
Commits(w, r) ==
  {i \in DOMAIN calls[w] :
     /\ calls[w][i].op \in {"UpdateAsActive", "UpdateAsPassive"}
     /\ calls[w][i].run = r}

\* the step hands the loaded state of the run itself to ApplyOtherEvents: the
\* run is not rebuilt and keeps the events it has
TakesStateIn(w) ==
  LET run == req[w].run IN
  /\ pc'[w] = "done"
  /\ result'[w].kind \in {"ok", "retry"}
  /\ \A i \in DOMAIN calls'[w] : calls'[w][i].op \in {"applyEvents", "UpdateAsPassive"}
  /\ SubSeq(store'[run].events, 1, Len(store[run].events)) = store[run].events
  /\ \A q \in RunIDs \ {run} : store'[q] = store[q]
  /\ current' = current

\* the step fails with msg: nothing is written and no call is made
FailsWith(w, msg) ==
  /\ pc'[w] = "done"
  /\ result'[w] = [kind |-> "error", msg |-> msg]
  /\ store' = store
  /\ current' = current
  /\ branches' = branches
  /\ calls'[w] = <<>>

C21_Step ==
  \A w \in Workers :
    (NewerBatchStep(w) /\ PrevActiveCluster(w) # CurrentCluster) =>
      IF ClusterNameForFailoverVersion(req[w].version) = PrevActiveCluster(w)
      THEN TakesStateIn(w)
      ELSE FailsWith(w, "ErrMoreThan2DC")

\* C21: version checking of a batch newer than the run's last write, when the
\* last write was authored by another cluster than the current one: the
\* loaded mutable state is returned as it is when the batch comes from that
\* same cluster, otherwise the request fails with ErrMoreThan2DC; in neither
\* case is the conflict resolver invoked or anything committed by the check.
C21_PrevActiveRemote ==
  [][C21_Step]_vars

C21_Witness ==
  /\ pc["w1"] = "done"
  /\ result["w1"] = [kind |-> "error", msg |-> "ErrMoreThan2DC"]
  /\ calls["w1"] = <<>>
  /\ req["w1"].version > store[req["w1"].run].lastWriteVersion
  /\ PrevActiveCluster("w1") = AlternativeCluster
  /\ ~loc["w1"].redelivered

\* the batch of worker w is newer than the last write of its run, made by the
\* current cluster, and the request carries no replicationInfo entry for the
\* current cluster or one of a lower version; the run is not written between
\* the version check and the reset
PeerLags(w) ==
  LET ms == store[req[w].run] IN
  /\ pc[w] \in {"versionCheck", "resolve", "terminate", "reset"}
  /\ pc[w] # "versionCheck" => loc[w].path = "resolve"
  /\ req[w].version > ms.lastWriteVersion
  /\ PrevActiveCluster(w) = CurrentCluster
  /\ req[w].info = NoInfo \/ req[w].info.version < ms.lastWriteVersion

\* the reset call of the step of worker w, made once, at version v and event
\* id e against the previous run prev
ResetsAt(w, prev, v, e) ==
  /\ Len(calls'[w]) > Len(calls[w])
  /\ calls'[w][Len(calls[w]) + 1] =
       [op |-> "reset", run |-> req[w].run, prevRunID |-> prev,
        version |-> v, lastEventID |-> e]
  /\ Cardinality({i \in DOMAIN calls'[w] : calls'[w][i].op = "reset"}) = 1

\* the step appends the batch to the state rebuilt at event id e, not to the
\* loaded one
AppendsToRebuilt(w, e) ==
  LET run == req[w].run IN
  /\ pc'[w] = "done"
  /\ result'[w] = Success =>
       \/ store' = store
       \/ /\ SubSeq(store'[run].events, 1, e) = SubSeq(store[run].events, 1, e)
          /\ Len(store'[run].events) = e + Len(req[w].events)
          /\ \A i \in 1..Len(req[w].events) :
               /\ store'[run].events[e + i].type = req[w].events[i]
               /\ store'[run].events[e + i].version = req[w].version
          /\ current' = run
  /\ result'[w] # Success => store' = store

\* C22 as stated: with no replicationInfo entry for the current cluster, or
\* one of a lower version, the conflict resolver is invoked exactly once at
\* (lastWriteVersion of the run, lastEventID of the run's lastReplicationInfo)
\* and the state it returns is the one used.
C22_AsStatedStep ==
  \A w \in Workers :
    LET run == req[w].run
        ms == store[run]
    IN
    (PeerLags(w) /\ pc'[w] # pc[w]) =>
      /\ pc[w] = "versionCheck" =>
           pc'[w] = "resolve" /\ store' = store /\ calls'[w] = calls[w]
      /\ pc[w] = "resolve" => pc'[w] # "done"
      /\ pc[w] = "reset" =>
           /\ \E prev \in RunIDs : ResetsAt(w, prev, ms.lastWriteVersion, ms.replicated)
           /\ AppendsToRebuilt(w, ms.replicated)

C22_Step ==
  \A w \in Workers :
    LET run == req[w].run
        ms == store[run]
    IN
    (PeerLags(w) /\ IsWorkflowExecutionRunning(ms) /\ pc'[w] # pc[w]) =>
      /\ pc[w] = "versionCheck" =>
           pc'[w] = "resolve" /\ store' = store /\ calls'[w] = calls[w]
      /\ pc[w] = "resolve" =>
           pc'[w] = "reset" /\ store' = store /\ calls'[w] = calls[w]
      /\ pc[w] # "terminate"
      /\ pc[w] = "reset" =>
           /\ ResetsAt(w, run, ms.lastWriteVersion, ms.replicated)
           /\ AppendsToRebuilt(w, ms.replicated)

C23_Step ==
  \A w \in Workers :
    LET ms == store[req[w].run]
        info == req[w].info
    IN
    (NewerBatchStep(w) /\ PrevActiveCluster(w) = CurrentCluster /\ info # NoInfo) =>
      /\ info.version > ms.lastWriteVersion =>
           FailsWith(w, "ErrImpossibleRemoteClaimSeenHigherVersion")
      /\ (info.version = ms.lastWriteVersion
          /\ info.lastEventID > ms.lastWriteEventID) =>
           FailsWith(w, "ErrCorruptedReplicationInfo")

\* C23: version checking of a batch newer than the run's last write, made by
\* the current cluster, when the peer's replicationInfo entry for the current
\* cluster is ahead of the run: the request fails with
\* ErrImpossibleRemoteClaimSeenHigherVersion when the entry's version is above
\* lastWriteVersion and with ErrCorruptedReplicationInfo when the versions are
\* equal and the entry's lastEventID is above lastWriteEventID; no conflict
\* resolver call, no flush and no commit is made.
C23_RemoteAhead ==
  [][C23_Step]_vars

C23_Witness ==
  LET ms == store[req["w1"].run] IN
  /\ pc["w1"] = "done"
  /\ result["w1"] = [kind |-> "error", msg |-> "ErrCorruptedReplicationInfo"]
  /\ calls["w1"] = <<>>
  /\ req["w1"].info.version = ms.lastWriteVersion
  /\ req["w1"].info.lastEventID > ms.lastWriteEventID
  /\ ms.buffered
  /\ ~loc["w1"].redelivered

\* the batch of worker w is newer than the last write of its run, made by the
\* current cluster, and the peer saw that version only up to an event before
\* the run's last write
PeerBehind(w) ==
  LET ms == store[req[w].run] IN
  /\ pc[w] \in {"versionCheck", "resolve", "terminate", "reset"}
  /\ pc[w] # "versionCheck" => loc[w].path = "resolve"
  /\ req[w].version > ms.lastWriteVersion
  /\ PrevActiveCluster(w) = CurrentCluster
  /\ req[w].info # NoInfo
  /\ req[w].info.version = ms.lastWriteVersion
  /\ req[w].info.lastEventID < ms.lastWriteEventID

\* C24 as stated: with a replicationInfo entry of the run's lastWriteVersion
\* and a lastEventID below lastWriteEventID, the conflict resolver is invoked
\* exactly once at (lastWriteVersion, info.lastEventID) and the state it
\* returns is used for the append.
C24_AsStatedStep ==
  \A w \in Workers :
    LET run == req[w].run
        ms == store[run]
    IN
    (PeerBehind(w) /\ pc'[w] # pc[w]) =>
      /\ pc[w] = "versionCheck" => pc'[w] = "resolve"
      /\ pc[w] = "resolve" => pc'[w] # "done"
      /\ pc[w] = "reset" =>
           /\ \E prev \in RunIDs :
                ResetsAt(w, prev, ms.lastWriteVersion, req[w].info.lastEventID)
           /\ AppendsToRebuilt(w, req[w].info.lastEventID)

C24_TruncateAlwaysInvoked ==
  [][C24_AsStatedStep]_vars

C24_Step ==
  \A w \in Workers :
    LET run == req[w].run
        ms == store[run]
    IN
    (PeerBehind(w) /\ IsWorkflowExecutionRunning(ms) /\ pc'[w] # pc[w]) =>
      /\ pc[w] = "versionCheck" =>
           /\ pc'[w] = "resolve"
           /\ loc'[w].lastEventID = req[w].info.lastEventID
           /\ ~ms.buffered => store' = store /\ calls'[w] = calls[w]
      /\ pc[w] = "resolve" =>
           pc'[w] = "reset" /\ store' = store /\ calls'[w] = calls[w]
      /\ pc[w] # "terminate"
      /\ pc[w] = "reset" =>
           /\ ResetsAt(w, run, ms.lastWriteVersion, req[w].info.lastEventID)
           /\ AppendsToRebuilt(w, req[w].info.lastEventID)

\* C24 amended: version checking of a batch newer than the last write of a
\* running run, made by the current cluster, when the request's
\* replicationInfo entry for the current cluster has the run's
\* lastWriteVersion and a lastEventID below its lastWriteEventID: the conflict
\* resolver is invoked exactly once, at (lastWriteVersion, info.lastEventID)
\* of the request, and the batch is appended to the rebuilt state it returns.
C24_TruncateWhenRunning ==
  [][C24_Step]_vars

C24_Witness ==
  LET run == req["w1"].run IN
  /\ pc["w1"] = "done"
  /\ result["w1"] = Success
  /\ req["w1"].info = [version |-> 2, lastEventID |-> 2]
  /\ ~loc["w1"].redelivered
  /\ calls["w1"] = <<[op |-> "reset", run |-> run, prevRunID |-> run,
                      version |-> 2, lastEventID |-> 2],
                     [op |-> "applyEvents", run |-> run],
                     [op |-> "UpdateAsPassive", run |-> run]>>
  /\ req["w1"].events = <<"Signaled">>
  /\ Len(store[run].events) = 3
  /\ store[run].events[3].version = req["w1"].version

\* the step of worker w reports the gap before the batch against state ms and
\* writes nothing
ReportsGap(w, ms) ==
  /\ pc'[w] = "done"
  /\ result'[w] = [kind |-> "retry", msg |-> "ErrRetryBufferEvents",
                   run |-> req[w].run, nextEventID |-> ms.nextEventID]
  /\ store' = store
  /\ current' = current
  /\ \A i \in DOMAIN calls'[w] :
       calls'[w][i].op \notin {"applyEvents", "UpdateAsPassive"}

C25_Step ==
  \A w \in Workers :
    LET ms == store[req[w].run]
        mid == ResetMutableState(ms, loc[w].lastEventID)
    IN
    /\ (/\ pc[w] = "versionCheck"
        /\ pc'[w] # pc[w]
        /\ \/ req[w].version = ms.lastWriteVersion
           \/ /\ req[w].version > ms.lastWriteVersion
              /\ PrevActiveCluster(w) = AlternativeCluster
              /\ ClusterNameForFailoverVersion(req[w].version) = AlternativeCluster
        /\ IsWorkflowExecutionRunning(ms)
        /\ req[w].first > ms.nextEventID) =>
         ReportsGap(w, ms) /\ calls'[w] = <<>>
    /\ (/\ pc[w] = "reset"
        /\ pc'[w] # pc[w]
        /\ ~ResolverFailed(w)'
        /\ IsWorkflowExecutionRunning(mid)
        /\ req[w].first > mid.nextEventID) =>
         ReportsGap(w, mid)

C25_Outcome ==
  \A w \in Workers :
    (pc[w] = "done" /\ result[w].kind = "retry"
     /\ result[w].msg = "ErrRetryBufferEvents") =>
      /\ ~req[w].start
      /\ result[w].run = req[w].run
      /\ result[w].nextEventID < req[w].first
      /\ ~HasOp(w, "applyEvents")
      /\ ~HasOp(w, "UpdateAsPassive")

\* C25: ApplyOtherEvents on a running run whose nextEventID is below the
\* firstEventID of the batch returns RetryTask(ErrRetryBufferEvents, runID,
\* the run's nextEventID): no event of the batch is applied or buffered and
\* the run is left as it is.
C25_GapRetried ==
  []C25_Outcome /\ [][C25_Step]_vars

C25_Witness ==
  LET run == req["w1"].run IN
  /\ pc["w1"] = "done"
  /\ result["w1"] = [kind |-> "retry", msg |-> "ErrRetryBufferEvents",
                     run |-> run, nextEventID |-> 3]
  /\ req["w1"].first = 4
  /\ req["w1"].version = store[run].lastWriteVersion
  /\ store[run].nextEventID = 3
  /\ calls["w1"] = <<>>
  /\ ~loc["w1"].redelivered

\* the step of worker w drops the batch: success, nothing written, no state
\* builder call
Dropped(w) ==
  /\ pc'[w] = "done"
  /\ result'[w] = Success
  /\ store' = store
  /\ current' = current
  /\ \A i \in DOMAIN calls'[w] :
       calls'[w][i].op \notin {"applyEvents", "UpdateAsPassive"}

\* the step of worker w hands a closed state and a batch that is not behind
\* it to ApplyOtherEvents: the loaded one when the version check accepts it,
\* or the one rebuilt by the conflict resolver
ClosedTargetStep(w) ==
  LET ms == store[req[w].run]
      mid == ResetMutableState(ms, loc[w].lastEventID)
  IN
  /\ pc'[w] # pc[w]
  /\ \/ /\ pc[w] = "versionCheck"
        /\ \/ req[w].version = ms.lastWriteVersion
           \/ /\ req[w].version > ms.lastWriteVersion
              /\ PrevActiveCluster(w) = AlternativeCluster
              /\ ClusterNameForFailoverVersion(req[w].version) = AlternativeCluster
        /\ ~IsWorkflowExecutionRunning(ms)
        /\ req[w].first >= ms.nextEventID
     \/ /\ pc[w] = "reset"
        /\ ~ResolverFailed(w)'
        /\ ~IsWorkflowExecutionRunning(mid)
        /\ req[w].first >= mid.nextEventID

\* C26 as stated: a batch for a closed run is dropped silently when
\* forceBufferEvents is false and is not dropped when it is true.
C26_AsStatedStep ==
  \A w \in Workers :
    ClosedTargetStep(w) =>
      IF req[w].forceBufferEvents THEN ~Dropped(w) ELSE Dropped(w)

C26_DropUnlessForced ==
  [][C26_AsStatedStep]_vars

C26_Step ==
  \A w \in Workers : ClosedTargetStep(w) => Dropped(w)

\* C26 amended: a batch for a run that is already closed is dropped silently
\* (success, no state change, state builder not invoked) whether
\* forceBufferEvents is false or true.
C26_DropClosed ==
  [][C26_Step]_vars

C26_Witness ==
  LET run == req["w1"].run IN
  /\ pc["w1"] = "done"
  /\ req["w1"].forceBufferEvents
  /\ req["w1"].version = store[run].lastWriteVersion
  /\ req["w1"].first = store[run].nextEventID
  /\ ~IsWorkflowExecutionRunning(store[run])
  /\ result["w1"] = Success
  /\ calls["w1"] = <<>>
  /\ ~loc["w1"].redelivered

\* the batch of worker w has the version of the last write of its run and
\* starts at the run's next event
InOrderStep(w) ==
  LET ms == store[req[w].run] IN
  /\ pc[w] = "versionCheck"
  /\ pc'[w] # pc[w]
  /\ req[w].version = ms.lastWriteVersion
  /\ req[w].first = ms.nextEventID

\* the step appends the k events of the batch to the loaded state and commits
\* it as passive, once
Appended(w) ==
  LET run == req[w].run
      ms == store[run]
      k == Len(req[w].events)
  IN
  /\ pc'[w] = "done"
  /\ result'[w] = Success
  /\ calls'[w] = <<[op |-> "applyEvents", run |-> run],
                   [op |-> "UpdateAsPassive", run |-> run]>>
  /\ store'[run].events =
       ms.events \o [i \in 1..k |-> [eventID |-> ms.nextEventID + i - 1,
                                      version |-> req[w].version,
                                      type |-> req[w].events[i]]]
  /\ store'[run].nextEventID = ms.nextEventID + k
  /\ store'[run].lastWriteEventID = ms.nextEventID + k - 1
  /\ store'[run].lastWriteVersion = req[w].version
  /\ \A q \in RunIDs \ {run} : store'[q] = store[q]
  /\ current' = current

\* C27 as stated: a batch at the run's lastWriteVersion that starts at the
\* run's nextEventID is appended.
C27_AsStatedStep ==
  \A w \in Workers : InOrderStep(w) => Appended(w)

C27_InOrderAppended ==
  [][C27_AsStatedStep]_vars

C27_Step ==
  \A w \in Workers :
    (InOrderStep(w) /\ IsWorkflowExecutionRunning(store[req[w].run])) => Appended(w)

\* C27 amended: a batch whose version equals the lastWriteVersion of a running
\* run and whose firstEventID equals the run's nextEventID is accepted without
\* conflict resolution and appended to the loaded state: its k events get the
\* ids nextEventID .. nextEventID + k - 1, the run is committed as passive
\* exactly once and its nextEventID advances by exactly k.
C27_InOrderAppendedWhenRunning ==
  [][C27_Step]_vars

C27_Witness ==
  LET run == req["w1"].run IN
  /\ pc["w1"] = "done"
  /\ result["w1"] = Success
  /\ calls["w1"] = <<[op |-> "applyEvents", run |-> run],
                     [op |-> "UpdateAsPassive", run |-> run]>>
  /\ Len(req["w1"].events) = 2
  /\ store[run].nextEventID = req["w1"].first + 2
  /\ store[run].events[req["w1"].first - 1].version = req["w1"].version
  /\ store[run].events[req["w1"].first + 1].type = "Completed"
  /\ ~loc["w1"].redelivered

\* the request of worker w created its run
CreateCommitted(w) ==
  /\ pc[w] = "done"
  /\ req[w].start
  /\ result[w] = Success
  /\ loc[w].path # "same"
  /\ calls[w] # <<>>
  /\ calls[w][Len(calls[w])].op = "CreateWorkflowExecution"
  /\ calls[w][Len(calls[w])].mode # "failed"

\* number of snapshots of run r committed by the request of worker w
CommitCount(w, r) ==
  Cardinality(Commits(w, r))
    + (IF r = req[w].run /\ CreateCommitted(w) THEN 1 ELSE 0)

\* the request of worker w flushed the buffered events of its run
Flushed(w) == HasOp(w, "AddDecisionTaskFailedEvent")

\* the appended branch of a start request that failed is left without a run
OrphanBranch(w) ==
  /\ pc[w] = "done"
  /\ req[w].start
  /\ result[w].kind = "error"
  /\ req[w].run \in branches
  /\ ~Exists(req[w].run)

\* C28 as stated: a request commits at most one snapshot per run on every
\* path, the buffered-event flush included, and a request that fails before
\* its commit leaves nothing written.
C28_OneCommitPerRun ==
  \A w \in Workers :
    pc[w] # "idle" =>
      /\ \A r \in RunIDs : CommitCount(w, r) <= 1
      /\ ~OrphanBranch(w)

C28_Outcome ==
  \A w \in Workers :
    pc[w] # "idle" =>
      \A r \in RunIDs :
        CommitCount(w, r) <= (IF Flushed(w) /\ r = req[w].run THEN 2 ELSE 1)

\* the step of worker w logs a commit of run r
CommitsInStep(w, r) ==
  \E i \in (Len(calls[w]) + 1)..Len(calls'[w]) :
    \/ /\ calls'[w][i].op \in {"UpdateAsActive", "UpdateAsPassive"}
       /\ calls'[w][i].run = r
    \/ /\ calls'[w][i].op = "CreateWorkflowExecution"
       /\ calls'[w][i].mode # "failed"
       /\ r = req[w].run

C28_Step ==
  \A w \in Workers :
    (pc'[w] # pc[w]) =>
      /\ \A r \in RunIDs : store'[r] # store[r] => CommitsInStep(w, r)
      /\ current' # current => CommitsInStep(w, current')
      /\ \A r \in RunIDs : Len(calls'[w]) >= Len(calls[w]) =>
           Cardinality({i \in (Len(calls[w]) + 1)..Len(calls'[w]) :
                          /\ calls'[w][i].op \in {"UpdateAsActive",
                                                  "UpdateAsPassive"}
                          /\ calls'[w][i].run = r}) <= 1

\* C28 amended: a request commits at most one snapshot per run on the append,
\* signal reapplication, termination and create paths; the flush of buffered
\* events is a commit of its own, so that a request that flushes and then
\* appends commits its run twice.  The persisted runs and the current-run
\* pointer change only in a step that makes a commit, one per run, so a
\* request that stops before a commit has written no run (the history branch
\* a start request appended stays when its create fails).
C28_OneCommitUnlessFlushed ==
  []C28_Outcome /\ [][C28_Step]_vars

C28_Witness ==
  LET run == req["w1"].run IN
  /\ pc["w1"] = "done"
  /\ result["w1"] = Success
  /\ Flushed("w1")
  /\ CommitCount("w1", run) = 2
  /\ Count("w1", ActiveCommit(run)) = 1
  /\ Count("w1", [op |-> "UpdateAsPassive", run |-> run]) = 1
  /\ Cardinality(ResetCalls("w1")) = 1
  /\ ~loc["w1"].redelivered

\* the start request of worker w returned success, its run was not created
\* and the create did not meet the run itself
RejectedStart(w) ==
  /\ pc[w] = "done"
  /\ req[w].start
  /\ result[w] = Success
  /\ ~Exists(req[w].run)
  /\ loc[w].path # "same"

\* C29: whenever replicateWorkflowStarted returns success without having
\* created the incoming run, other than in the sameRunID case, the history
\* branch appended for the incoming run has been deleted with
\* DeleteHistoryBranch: the call is made once and no branch of the run
\* remains.
C29_RejectedBranchDeleted ==
  \A w \in Workers :
    RejectedStart(w) =>
      /\ Count(w, DeleteBranchCall(w)) = 1
      /\ req[w].run \notin branches

\* worker w is on the start path that found a running current run of lower
\* version
TerminatePath(w) ==
  /\ pc[w] \in {"terminate", "reuse", "done"}
  /\ req[w].start
  /\ loc[w].path = "terminate"

\* the second CreateWorkflowExecution of worker w is pending
SecondCreatePending(w) == TerminatePath(w) /\ pc[w] = "reuse"

\* the second CreateWorkflowExecution of worker w failed
SecondCreateFailed(w) ==
  /\ TerminatePath(w)
  /\ pc[w] = "done"
  /\ result[w].kind = "error"
  /\ calls[w][Len(calls[w])].op = "CreateWorkflowExecution"

\* the current run is terminated by worker w and the incoming run of w does
\* not exist
TerminatedNotCreated(w) ==
  /\ TerminatePath(w)
  /\ current = loc[w].prevRunID
  /\ ~IsWorkflowExecutionRunning(store[current])
  /\ LastEventType(store[current]) = "Terminated"
  /\ ~Exists(req[w].run)

\* worker w creates its incoming run in this step
CreatesInStep(w) ==
  /\ pc[w] \in {"create", "reuse"}
  /\ pc'[w] = "done"
  /\ result'[w] = Success
  /\ calls'[w][Len(calls'[w])].op = "CreateWorkflowExecution"
  /\ calls'[w][Len(calls'[w])].mode # "failed"
  /\ store[req[w].run] = Absent
  /\ store'[req[w].run] = Snapshot(w)

\* worker w commits the rebuilt target run in this step
ResetCommitsInStep(w) ==
  /\ pc[w] = "reset"
  /\ pc'[w] = "done"
  /\ result'[w] = Success
  /\ calls'[w][Len(calls'[w])] = [op |-> "UpdateAsPassive", run |-> req[w].run]

C30_AsStatedStep ==
  current' # current =>
    \E w \in Workers : CreatesInStep(w) /\ current' = req[w].run

C30_Outcome ==
  \A w \in Workers :
    (SecondCreatePending(w) \/ SecondCreateFailed(w)) =>
      /\ TerminatedNotCreated(w)
      /\ Count(w, ActiveCommit(current)) = 1
      /\ req[w].run \in branches

C30_Step ==
  /\ \A w \in Workers :
       (SecondCreatePending(w) /\ CreatesInStep(w)) =>
         /\ current = loc[w].prevRunID
         /\ store[current].lastWriteVersion = loc[w].prevLastWriteVersion
         /\ current' = req[w].run
         /\ store'[current] = store[current]
  /\ current' # current =>
       \E w \in Workers :
         /\ CreatesInStep(w) \/ ResetCommitsInStep(w)
         /\ current' = req[w].run
         /\ Exists(req[w].run)'

PeerCaughtUp(w) ==
  LET ms == store[req[w].run] IN
  /\ req[w].version > ms.lastWriteVersion
  /\ PrevActiveCluster(w) = CurrentCluster
  /\ req[w].info # NoInfo
  /\ req[w].info.version = ms.lastWriteVersion
  /\ req[w].info.lastEventID = ms.lastWriteEventID

\* calls of the flush of the buffered events of run at version v
C31_FlushCalls(run, v) ==
  <<[op |-> "UpdateCurrentVersion", run |-> run, version |-> v],
    [op |-> "AddDecisionTaskFailedEvent", run |-> run,
     cause |-> "FailoverCloseDecision"],
    [op |-> "AddDecisionTaskScheduledEvent", run |-> run],
    ActiveCommit(run)>>

\* the flush in the step: the in-flight decision fails, another is scheduled,
\* both events carry the run's last write version and are committed
C31_FlushStep(w) ==
  LET run == req[w].run
      ms == store[run]
      n == Len(ms.events)
  IN
  /\ pc'[w] = "resolve"
  /\ calls'[w] = calls[w] \o C31_FlushCalls(run, ms.lastWriteVersion)
  /\ SubSeq(store'[run].events, 1, n) = ms.events
  /\ Len(store'[run].events) = n + 2
  /\ store'[run].events[n + 1] =
       [eventID |-> n + 1, version |-> ms.lastWriteVersion, type |-> "DecisionFailed"]
  /\ store'[run].events[n + 2] =
       [eventID |-> n + 2, version |-> ms.lastWriteVersion,
        type |-> "DecisionScheduled"]
  /\ store'[run].lastWriteEventID = ms.lastWriteEventID + 2
  /\ store'[run].lastWriteVersion = ms.lastWriteVersion
  /\ store'[run].pendingDecision
  /\ ~store'[run].buffered
  /\ IsWorkflowExecutionRunning(store'[run])
  /\ \A q \in RunIDs \ {run} : store'[q] = store[q]
  /\ current' = current

\* after its flush the request of worker w is on its way to the resolver
C31_AfterFlush(w) ==
  /\ pc[w] \in {"resolve", "terminate", "reset"}
  /\ loc[w].path = "resolve"
  /\ Flushed(w)
  /\ req[w].info.lastEventID = store[req[w].run].lastWriteEventID - 2

C31_Step ==
  \A w \in Workers :
    LET run == req[w].run
        ms == store[run]
    IN
    /\ (NewerBatchStep(w) /\ PeerCaughtUp(w)) =>
         IF ms.buffered
         THEN C31_FlushStep(w)
         ELSE TakesStateIn(w) /\ ResetCalls(w)' = {}
    /\ (C31_AfterFlush(w) /\ pc'[w] # pc[w]) =>
         /\ pc[w] = "resolve" =>
              pc'[w] = "reset" /\ store' = store /\ calls'[w] = calls[w]
         /\ pc[w] # "terminate"
         /\ pc[w] = "reset" =>
              /\ Len(calls[w]) = 4
              /\ ResetsAt(w, run, ms.lastWriteVersion, req[w].info.lastEventID)
              /\ AppendsToRebuilt(w, req[w].info.lastEventID)

\* C31: version checking of a batch newer than the run's last write, made by
\* the current cluster, when the peer's replicationInfo entry has the run's
\* lastWriteVersion and lastWriteEventID: without buffered events the loaded
\* state is used as it is and the conflict resolver is not invoked; with
\* buffered events the in-flight decision is failed with cause
\* FailoverCloseDecision, another decision is scheduled, the flush is committed
\* as active, and only then the conflict resolver is invoked, once, at
\* (lastWriteVersion, info.lastEventID), and its rebuilt state is used.
C31_CaughtUpFlushOrNoOp ==
  [][C31_Step]_vars

C31_Witness ==
  LET run == req["w1"].run IN
  /\ pc["w1"] = "done"
  /\ ~loc["w1"].redelivered
  /\ req["w1"].info # NoInfo
  /\ Len(calls["w1"]) >= 5
  /\ SubSeq(calls["w1"], 1, 4) = C31_FlushCalls(run, req["w1"].info.version)
  /\ calls["w1"][5] = [op |-> "reset", run |-> run, prevRunID |-> run,
                       version |-> req["w1"].info.version,
                       lastEventID |-> req["w1"].info.lastEventID]
  /\ req["w1"].info.lastEventID = 2
  /\ result["w1"] = Success
  /\ Len(store[run].events) = 2 + Len(req["w1"].events)

\* the step of worker w reapplies signals to run r
C32_ReappliesTo(w, r) ==
  \E i \in (Len(calls[w]) + 1)..Len(calls'[w]) : calls'[w][i] = SignaledCall(r)

C32_Step ==
  \A w \in Workers, r \in RunIDs :
    C32_ReappliesTo(w, r) =>
      LET ms == store[r]
          n == Len(ms.events)
          k == Len(SignalEvents(req[w].events))
          d == IF ms.pendingDecision THEN 0 ELSE 1
          new == SubSeq(calls'[w], Len(calls[w]) + 1, Len(calls'[w]))
      IN
      /\ lock[r] = w \/ (pc[w] = "lockCurrent" /\ loc[w].cur = r /\ LockFree(r))
      /\ \A q \in Workers \ {w} : lock'[r] # q /\ calls'[q] = calls[q]
      /\ k >= 1
      /\ Len(new) = k + d + 2
      /\ new[1] = [op |-> "UpdateCurrentVersion", run |-> r,
                   version |-> ms.lastWriteVersion]
      /\ \A i \in 1..k : new[1 + i] = SignaledCall(r)
      /\ d = 1 => new[k + 2] = [op |-> "AddDecisionTaskScheduledEvent", run |-> r]
      /\ new[k + d + 2] = ActiveCommit(r)
      /\ SubSeq(store'[r].events, 1, n) = ms.events
      /\ Len(store'[r].events) = n + k + d
      /\ \A i \in 1..k :
           store'[r].events[n + i] =
             [eventID |-> n + i, version |-> ms.lastWriteVersion, type |-> "Signaled"]
      /\ d = 1 => store'[r].events[n + k + 1].type = "DecisionScheduled"
      /\ store'[r].pendingDecision
      /\ store'[r].lastWriteEventID = n + k + d
      /\ \A q \in RunIDs \ {r} : store'[q] = store[q]

\* C32: signal reapplication onto a run is made with no other request holding
\* the lock of the run's context and calls, in this order,
\* UpdateCurrentVersion(lastWriteVersion of the run), AddWorkflowExecutionSignaled
\* for each WorkflowExecutionSignaled event of the batch,
\* AddDecisionTaskScheduledEvent if and only if the run has no pending
\* decision, and a commit as active, never as passive; the events of every
\* other type in the batch add nothing to the run.
C32_ReapplicationCalls ==
  [][C32_Step]_vars

C32_Witness ==
  LET ms == store[current]
      n == Len(ms.events)
  IN
  /\ pc["w1"] = "done"
  /\ ~loc["w1"].redelivered
  /\ req["w1"].start
  /\ req["w1"].events = <<"Started", "Signaled">>
  /\ ~Exists(req["w1"].run)
  /\ Count("w1", SignaledCall(current)) = 1
  /\ Count("w1", [op |-> "AddDecisionTaskScheduledEvent", run |-> current]) = 1
  /\ calls["w1"][Len(calls["w1"])] = ActiveCommit(current)
  /\ n = 4
  /\ ms.events[n - 1].type = "Signaled"
  /\ ms.events[n].type = "DecisionScheduled"

\* the batch of worker w, for a run unknown locally and not a reset request,
\* was at the version of the last write of the current run, which is closed
EqualFinished(w) ==
  /\ Missing(w)
  /\ ~req[w].resetWorkflow
  /\ loc[w].cur # EmptyRunID
  /\ req[w].version = store[loc[w].cur].lastWriteVersion
  /\ ~IsWorkflowExecutionRunning(store[loc[w].cur])

C34_StaleSignalStep(w, r) ==
  /\ C32_ReappliesTo(w, r)
  /\ req[w].run # r
  /\ req[w].version < store[r].lastWriteVersion
  /\ IsWorkflowExecutionRunning(store[r])
  /\ Len(SignalEvents(req[w].events)) = 1

\* C34 as stated: a stale request for another run with one signal event,
\* reapplied to a running run with no pending decision, leaves that run with
\* a nextEventID two above its former lastWriteEventID (22 after 20).
C34_AsStatedStep ==
  \A w \in Workers, r \in RunIDs :
    (C34_StaleSignalStep(w, r) /\ ~store[r].pendingDecision) =>
      store'[r].nextEventID = store[r].lastWriteEventID + 2

C34_NextEventIDTwoAboveLastWrite ==
  [][C34_AsStatedStep]_vars

C34_Step ==
  \A w \in Workers, r \in RunIDs :
    C34_StaleSignalStep(w, r) =>
      LET ms == store[r]
          d == IF ms.pendingDecision THEN 0 ELSE 1
          added == Added(ms, store'[r])
      IN
      /\ ms.nextEventID = ms.lastWriteEventID + 1
      /\ added = IF d = 1 THEN <<"Signaled", "DecisionScheduled">> ELSE <<"Signaled">>
      /\ store'[r].nextEventID = ms.nextEventID + 1 + d
      /\ store'[r].lastWriteEventID = ms.lastWriteEventID + 1 + d
      /\ d = 1 => store'[r].nextEventID = ms.lastWriteEventID + 3
      /\ store'[req[w].run] = store[req[w].run]
      /\ ~req[w].start => store'[req[w].run] = Absent \/ loc[w].path = "closed"
      /\ req[w].start => store'[req[w].run] = Absent
      /\ result'[w] = Success

\* C34 amended: a stale request for another run that carries one signal
\* event, reapplied to the running current run, adds one signal event and,
\* when no decision is pending, one decision-scheduled event to that run; the
\* run of the request is not created; nextEventID advances by 2 when no
\* decision is pending and by 1 when one is, so that from lastWriteEventID n
\* (nextEventID n + 1) it becomes n + 3 without a pending decision (23 after
\* lastWriteEventID 20, not 22).
C34_StaleSignalAdvances ==
  [][C34_Step]_vars

C34_Witness ==
  /\ StaleMissing("w1")
  /\ ~loc["w1"].redelivered
  /\ result["w1"] = Success
  /\ req["w1"].events = <<"Signaled">>
  /\ Count("w1", [op |-> "AddDecisionTaskScheduledEvent", run |-> current]) = 1
  /\ store[current].lastWriteEventID = 4
  /\ store[current].nextEventID = 5
  /\ ~Exists(req["w1"].run)

C35_Outcome ==
  \A w \in Workers :
    LET run == req[w].run
        ms == store[run]
        n == Len(ms.events)
    IN
    ResolverFailed(w) =>
      /\ Cardinality(ResetCalls(w)) = 1
      /\ calls[w][Len(calls[w])].op = "reset"
      /\ ~HasOp(w, "UpdateAsPassive")
      /\ ~HasOp(w, "applyEvents")
      /\ IF Flushed(w)
         THEN /\ Commits(w, run) = {4}
              /\ calls[w][4] = ActiveCommit(run)
              /\ ms.events[n - 1].type = "DecisionFailed"
              /\ ms.events[n].type = "DecisionScheduled"
              /\ ms.lastWriteEventID = n
              /\ calls[w][Len(calls[w])].lastEventID <= n - 2
         ELSE Commits(w, run) = {}

C35_Step ==
  \A w \in Workers :
    LET run == req[w].run IN
    /\ (pc[w] = "reset" /\ result'[w].kind = "error") =>
         /\ store' = store
         /\ current' = current
         /\ branches' = branches
    /\ (pc[w] \in {"resolve", "terminate"} /\ loc[w].path = "resolve") =>
         store'[run] = store[run]
    /\ (pc[w] = "versionCheck" /\ pc'[w] = "resolve") =>
         \/ store' = store
         \/ store[run].buffered /\ C31_FlushStep(w)

C36_VersionsAscend(r) ==
  \A i, j \in DOMAIN store[r].events :
    i <= j => store[r].events[i].version <= store[r].events[j].version

C36_Outcome ==
  \A r \in ExistingRuns :
    /\ C36_VersionsAscend(r)
    /\ store[r].lastWriteVersion = store[r].events[Len(store[r].events)].version

C36_Step ==
  \A r \in RunIDs :
    (store[r] # Absent /\ store'[r] # store[r]) =>
      /\ store'[r] # Absent
      /\ store'[r].lastWriteVersion >= store[r].lastWriteVersion

\* C36: for every run, lastWriteVersion never decreases from one commit to
\* the next, and in the committed event log every event has a version greater
\* than or equal to the version of every earlier event; lastWriteVersion is
\* the version of the last committed event. This holds across dropped stale
\* batches, signal reapplication, flushes, terminations and a conflict
\* resolver reset followed by an append.
C36_VersionsNeverDecrease ==
  /\ []C36_Outcome
  /\ [][C36_Step]_vars

C36_Witness ==
  LET run == req["w1"].run
      ms == store[run]
  IN
  /\ pc["w1"] = "done"
  /\ result["w1"] = Success
  /\ Cardinality(ResetCalls("w1")) = 1
  /\ HasOp("w1", "UpdateAsPassive")
  /\ ms.events[1].version < ms.lastWriteVersion
  /\ ms.lastWriteVersion = req["w1"].version
  /\ ~loc["w1"].redelivered

\* the step of worker w hands ApplyOtherEvents a batch that starts before the
\* next event of the state it is given: the loaded state when the version
\* check accepts it, or the one rebuilt by the conflict resolver
C37_BehindStep(w) ==
  LET ms == store[req[w].run]
      mid == ResetMutableState(ms, loc[w].lastEventID)
  IN
  /\ pc'[w] # pc[w]
  /\ \/ /\ pc[w] = "versionCheck"
        /\ VersionCheckDecision(ms, req[w]) = "accept"
        /\ req[w].first < ms.nextEventID
     \/ /\ pc[w] = "reset"
        /\ result'[w].kind # "error"
        /\ req[w].first < mid.nextEventID

C37_Step ==
  \A w \in Workers :
    C37_BehindStep(w) =>
      /\ Dropped(w)
      /\ branches' = branches
      /\ \A i \in (Len(calls[w]) + 1)..Len(calls'[w]) : calls'[w][i].op = "reset"
      /\ Commits(w, req[w].run)' = Commits(w, req[w].run)

\* C37: ApplyOtherEvents, given a batch whose firstEventID is strictly below
\* the nextEventID of the run, returns success and leaves the run as it is,
\* with no event applied and no commit, whether the run is running or closed.
C37_DuplicateDropped ==
  [][C37_Step]_vars

C37_Witness ==
  LET ms == store[req["w1"].run] IN
  /\ pc["w1"] = "done"
  /\ ~req["w1"].start
  /\ ~loc["w1"].redelivered
  /\ result["w1"] = Success
  /\ calls["w1"] = <<>>
  /\ req["w1"].version = ms.lastWriteVersion
  /\ req["w1"].first = 3
  /\ ms.nextEventID = 4
  /\ ~IsWorkflowExecutionRunning(ms)

\* worker w takes the step of conflictResolutionTerminateCurrentRunningIfNotSelf
\* that looks at the target and, when the target is closed, at the current run
C38_LookStep(w) == pc[w] = "resolve" /\ pc'[w] # pc[w]

\* worker w takes the step that terminates the current run for the resolver
C38_TerminateStep(w) ==
  pc[w] = "terminate" /\ loc[w].path = "resolve" /\ pc'[w] # pc[w]

C38_Step ==
  \A w \in Workers :
    LET run == req[w].run
        ms == store[run]
        cur == store[current]
    IN
    /\ C38_LookStep(w) =>
         /\ store' = store
         /\ current' = current
         /\ ~HasOp(w, "AddWorkflowExecutionTerminatedEvent")'
         /\ IF IsWorkflowExecutionRunning(ms)
            THEN /\ pc'[w] = "reset"
                 /\ calls'[w] = calls[w]
                 /\ loc'[w].prevRunID = run
                 /\ loc'[w].prevLastWriteVersion = ms.lastWriteVersion
            ELSE /\ calls'[w] = Append(calls[w], GetCurrentCall)
                 /\ IF ~IsWorkflowExecutionRunning(cur)
                    THEN /\ pc'[w] = "reset"
                         /\ loc'[w].prevRunID = current
                         /\ loc'[w].prevLastWriteVersion = cur.lastWriteVersion
                    ELSE IF cur.lastWriteVersion < req[w].version
                    THEN /\ pc'[w] = "terminate"
                         /\ loc'[w].cur = current
                    ELSE /\ pc'[w] = "done"
                         /\ result'[w] = Success
                         /\ loc'[w].prevRunID = EmptyRunID
                         /\ ResetCalls(w)' = {}
    /\ C38_TerminateStep(w) =>
         LET c == loc[w].cur IN
         /\ ~IsWorkflowExecutionRunning(ms)
         /\ c = current /\ c # run
         /\ IsWorkflowExecutionRunning(store[c])
         /\ store[c].lastWriteVersion < req[w].version
         /\ TerminatedAt(c, store[c].lastWriteVersion)'
         /\ calls'[w] = calls[w] \o TerminationCalls(c, store[c].lastWriteVersion)'
         /\ \A q \in RunIDs \ {c} : store'[q] = store[q]
         /\ current' = current
         /\ pc'[w] = "reset"
         /\ loc'[w].prevRunID = c
         /\ loc'[w].prevLastWriteVersion = store[c].lastWriteVersion
         /\ store'[c].state = "Completed"

\* C38: conflictResolutionTerminateCurrentRunningIfNotSelf terminates a run
\* if and only if the target run is closed and the current run is running
\* with a lastWriteVersion strictly below the incoming version; it then
\* yields the current run, that lastWriteVersion and the state Completed. A
\* running target yields itself with its lastWriteVersion, a closed current
\* run yields the current run with its lastWriteVersion, and a running current
\* run whose lastWriteVersion is not below the incoming version yields an
\* empty previous run id; in these cases nothing is terminated.
C38_TerminateCurrentIfNotSelf ==
  [][C38_Step]_vars

C38_Witness ==
  LET c == loc["w1"].prevRunID IN
  /\ pc["w1"] \in {"reset", "done"}
  /\ loc["w1"].path = "resolve"
  /\ ~loc["w1"].redelivered
  /\ c # EmptyRunID
  /\ c # req["w1"].run
  /\ Count("w1", GetCurrentCall) = 1
  /\ HasOp("w1", "AddWorkflowExecutionTerminatedEvent")
  /\ LastEventType(store[c]) = "Terminated"
  /\ loc["w1"].prevLastWriteVersion < req["w1"].version

\* the call log entry of a create that failed with an error other than
\* AlreadyStarted, and the error handed back
C39_FailedCreate == [op |-> "CreateWorkflowExecution", mode |-> "failed"]

C39_InternalError == [kind |-> "error", msg |-> "Internal"]

\* the first create of worker w's start request is the one that failed
C39_FirstCreateFailed(w) ==
  /\ pc[w] = "done"
  /\ req[w].start
  /\ \E i \in DOMAIN calls[w] :
       /\ calls[w][i] = C39_FailedCreate
       /\ \A j \in 1..(i - 1) : calls[w][j].op # "CreateWorkflowExecution"

C39_Outcome ==
  \A w \in Workers :
    C39_FirstCreateFailed(w) =>
      /\ result[w] = C39_InternalError
      /\ calls[w] = <<AppendCall(w), C39_FailedCreate>>
      /\ req[w].run \in branches
      /\ \A r \in RunIDs : lock[r] # w

C39_Step ==
  \A w \in Workers :
    (pc[w] = "create" /\ pc'[w] = "done" /\ result'[w].kind = "error") =>
      /\ result'[w] = C39_InternalError
      /\ calls'[w] = Append(calls[w], C39_FailedCreate)
      /\ store' = store
      /\ current' = current
      /\ branches' = branches

\* C39: when the CreateWorkflowExecution of replicateWorkflowStarted fails
\* with an error other than AlreadyStarted, that error is returned to the
\* caller; the create is not retried with WorkflowIDReuse, no run is
\* terminated, no signal is reapplied and the branch appended for the run is
\* not deleted.
C39_CreateErrorReturned ==
  []C39_Outcome /\ [][C39_Step]_vars

C39_Witness ==
  /\ C39_FirstCreateFailed("w1")
  /\ ~loc["w1"].redelivered
  /\ current # EmptyRunID
  /\ IsWorkflowExecutionRunning(store[current])
  /\ store[current].lastWriteVersion < req["w1"].version
  /\ req["w1"].run \in branches
  /\ ~Exists(req["w1"].run)

C40_Outcome ==
  \A w \in Workers :
    /\ loc[w].curLocks = loc[w].curUnlocks
    /\ \A r \in RunIDs : (lock[r] = w) => (r = req[w].run /\ pc[w] # "done")
    /\ Waiting(w) => lock[loc[w].cur] # w
    /\ pc[w] = "done" => loc[w].curLocks <= 2

C40_Step ==
  \A w \in Workers :
    /\ (pc[w] = "lockCurrent" /\ pc'[w] # pc[w]) =>
         /\ lock[loc[w].cur] = NoWorker
         /\ lock'[loc[w].cur] = NoWorker
         /\ loc'[w].curLocks = loc[w].curLocks + 1
    /\ (pc[w] = "terminate" /\ pc'[w] # pc[w]) =>
         /\ lock[loc[w].cur] = NoWorker
         /\ lock'[loc[w].cur] = NoWorker
         /\ loc'[w].curLocks = loc[w].curLocks + 1
    /\ (pc[w] \notin {"lockCurrent", "terminate", "done", "idle"}) =>
         loc'[w].curLocks = loc[w].curLocks

====
